---- MODULE Spec2Model ----
(***************************************************************************)
(* Model of DataTableComponent (jafr_ng-data-table): column inference,     *)
(* the master column list and the responsive (width driven) column         *)
(* selection, together with the lifecycle handlers that recompute them;    *)
(* the export menu, toolbar and row actions; and DataTablePanelComponent,  *)
(* the panel that wraps the table.                                         *)
(*                                                                         *)
(* Strings the code inspects character by character (minWidth, record      *)
(* keys, ISO date strings) are tuples of one-character strings.  Optional  *)
(* properties are tuples of length 0 (undefined) or 1 (the value).         *)
(***************************************************************************)
EXTENDS Integers, Sequences, FiniteSets, TLC

VARIABLES
    data,                     \* @Input() data: T[]
    columnDefs,               \* @Input() columnDefs: ColumnDefinition<T>[]
    config,                   \* @Input() config: TableConfiguration<T>
    mergedConfig,             \* defaults overridden by config
    derivedColumns,           \* columns inferred from data[0]
    allMasterColumns,         \* master list (columnDefs or derivedColumns)
    responsiveDisplayColumns, \* columns displayed for the current width
    currentFilteredData,      \* data as last seen by the table
    tableWidth,               \* el.nativeElement.offsetWidth as last read
    phase,                    \* "constructed" | "initialized" (ngOnInit ran)
    thrown,                   \* the handler that ran last raised a TypeError
    loading,                  \* @Input() loading: boolean
    totalRecords,             \* @Input() totalRecords: number
    selection,                \* @Input() selection?: T | T[] | null
    selectedRows,             \* rows currently selected
    currentExportDefinition,  \* custom export definition chosen, or null
    defaultExportType,        \* "all" | "selected" | "successful" | "failed"
    customActionButtons,      \* toolbar buttons (config.customActions)
    toolbarDisabled,          \* disabled state of each toolbar button as
                              \* last evaluated
    emitted,                  \* events the handler that ran last emitted on
                              \* the table's outputs
    invoked,                  \* callbacks the handler that ran last called
    triggered,                \* the row-action menu item whose command ran
                              \* in the last step, if one did
    host,                     \* what the page around the panel bound in
                              \* its latest change detection, if it has one
    panel,                    \* the panel's own inputs; None when the table
                              \* is used without the panel
    panelEmitted,             \* events the panel emitted during the last step
    actionsPanelButtons,      \* buttons of the actions panel
                              \* (config.actionButtons)
    exportMenuItems,          \* items of the export split button
    timers,                   \* pending setTimeout callbacks, oldest first
    timerId,                  \* the handle setTimeout returned last
    aliased,                  \* selectedRows is the very array the host
                              \* bound to the selection input
    menuItemsCache,           \* cache key -> menu items of a row
    globalFilterValue,        \* value of the table's own search field
    currentGlobalFilter,      \* value of the external search field
    dtGlobalFilter,           \* text the PrimeNG table filters globally on
    cellData                  \* the cell the template renders, if any, with
                              \* what getCellData() returned for it

\* the state behind the selection, the row menus, the global search and the
\* cells
selectionState == << actionsPanelButtons, exportMenuItems, timers, timerId,
                    aliased >>
searchState == << globalFilterValue, currentGlobalFilter, dtGlobalFilter >>
uiState == << selectionState, menuItemsCache, searchState, cellData >>

vars == << data, columnDefs, config, mergedConfig, derivedColumns,
           allMasterColumns, responsiveDisplayColumns, currentFilteredData,
           tableWidth, phase, thrown, loading, totalRecords, selection,
           selectedRows, currentExportDefinition, defaultExportType,
           customActionButtons, toolbarDisabled, emitted, invoked,
           triggered, host, panel, panelEmitted, uiState >>

-----------------------------------------------------------------------------
(* Bounds *)

\* longest column definition list supplied by the host
MaxCols == 3
\* container widths run from -50 px to 50 * MaxWidthIdx px in steps of 50
MaxWidthIdx == 6
\* most properties of a first record that column inference is run on
MaxKeys == 2
\* most custom action buttons a configuration puts in the toolbar
MaxActions == 2
\* most row clicks (onRowSelect / onRowUnselect calls) of a run
MaxCalls == 2

-----------------------------------------------------------------------------
(* Optional values and small helpers *)

None == << >>
Some(v) == << v >>

\* JavaScript truthiness of an optional boolean property
Truthy(opt) == opt # None /\ opt[1] = TRUE

SeqToSet(s) == { s[i] : i \in 1..Len(s) }

RECURSIVE SumSeq(_)
SumSeq(s) == IF s = << >> THEN 0 ELSE Head(s) + SumSeq(Tail(s))

RECURSIVE Flatten(_)
Flatten(ss) == IF ss = << >> THEN << >> ELSE Head(ss) \o Flatten(Tail(ss))

\* all sequences without repetition over S of length at most n
InjSeqs(S, n) ==
    { s \in UNION { [1..k -> S] : k \in 0..n } :
        \A i, j \in DOMAIN s : s[i] = s[j] => i = j }

-----------------------------------------------------------------------------
(* parseInt(string, 10) and parseMinWidth *)

IsDigit(c) == c \in { "0", "1", "2", "3", "4", "5", "6", "7", "8", "9" }

DigitVal(c) ==
    CASE c = "0" -> 0 [] c = "1" -> 1 [] c = "2" -> 2 [] c = "3" -> 3
      [] c = "4" -> 4 [] c = "5" -> 5 [] c = "6" -> 6 [] c = "7" -> 7
      [] c = "8" -> 8 [] c = "9" -> 9

RECURSIVE SkipWhitespace(_, _)
SkipWhitespace(s, i) ==
    IF i <= Len(s) /\ s[i] = " " THEN SkipWhitespace(s, i + 1) ELSE i

RECURSIVE ParseDigits(_, _, _)
ParseDigits(s, i, acc) ==
    IF i > Len(s) \/ ~IsDigit(s[i]) THEN acc
    ELSE ParseDigits(s, i + 1, acc * 10 + DigitVal(s[i]))

\* parseInt(s, 10): leading whitespace, an optional sign, then the longest
\* run of decimal digits; NaN when there is no digit
parseInt(s) ==
    LET i0   == SkipWhitespace(s, 1)
        sign == i0 <= Len(s) /\ s[i0] \in { "+", "-" }
        neg  == sign /\ s[i0] = "-"
        i1   == IF sign THEN i0 + 1 ELSE i0
    IN  IF i1 <= Len(s) /\ IsDigit(s[i1])
        THEN [ nan |-> FALSE,
               val |-> (IF neg THEN -1 ELSE 1) * ParseDigits(s, i1, 0) ]
        ELSE [ nan |-> TRUE, val |-> 0 ]

Px100 == << "1", "0", "0", "p", "x" >>

\* faulty parseMinWidth: an unparsable width counts as 0
parseMinWidthZero(minWidth) ==
    LET parsed == parseInt(minWidth)
    IN  IF parsed.nan THEN 0 ELSE parsed.val

parseMinWidth(minWidth) ==
    LET parsed == parseInt(minWidth)
    IN  IF parsed.nan THEN 100 ELSE parsed.val

\* col.minWidth || "100px": undefined and "" are falsy
MinWidthOrDefault(col) ==
    IF col.minWidth = None \/ col.minWidth[1] = << >> THEN Px100
    ELSE col.minWidth[1]

\* this.parseMinWidth(col.minWidth || "100px")
ColMinWidth(col) == parseMinWidth(MinWidthOrDefault(col))

-----------------------------------------------------------------------------
(* Column inference: capitalizeHeader, guessType, guessFilterType,         *)
(* deriveColumnsFromData                                                   *)

LowerLetters == << "a", "b", "c", "d", "e", "f", "g", "h", "i", "j", "k", "l",
                   "m", "n", "o", "p", "q", "r", "s", "t", "u", "v", "w", "x",
                   "y", "z" >>
UpperLetters == << "A", "B", "C", "D", "E", "F", "G", "H", "I", "J", "K", "L",
                   "M", "N", "O", "P", "Q", "R", "S", "T", "U", "V", "W", "X",
                   "Y", "Z" >>

\* the character class [A-Z]
IsUpperAZ(c) == \E i \in 1..Len(UpperLetters) : UpperLetters[i] = c

toUpperCase(c) ==
    IF \E i \in 1..Len(LowerLetters) : LowerLetters[i] = c
    THEN UpperLetters[CHOOSE i \in 1..Len(LowerLetters) : LowerLetters[i] = c]
    ELSE c

\* header.replace(/([A-Z])/g, " $1")
InsertSpaces(header) ==
    Flatten([ i \in 1..Len(header) |->
                IF IsUpperAZ(header[i]) THEN << " ", header[i] >>
                ELSE << header[i] >> ])

capitalizeHeader(header) ==
    IF header = << >> THEN << >>
    ELSE LET result == InsertSpaces(header)
         IN  << toUpperCase(result[1]) >> \o Tail(result)

\* /^\d{4}-\d{2}-\d{2}T\d{2}:\d{2}:\d{2}/ ; "d" stands for \d
IsoDatePattern == << "d", "d", "d", "d", "-", "d", "d", "-", "d", "d", "T",
                     "d", "d", ":", "d", "d", ":", "d", "d" >>

IsoDateTest(s) ==
    /\ Len(s) >= Len(IsoDatePattern)
    /\ \A i \in 1..Len(IsoDatePattern) :
          IF IsoDatePattern[i] = "d" THEN IsDigit(s[i])
          ELSE s[i] = IsoDatePattern[i]

\* faulty guessType: strings are never tested against the ISO pattern
guessTypeNoPattern(value) ==
    IF value.t = "boolean" THEN "boolean"
    ELSE IF value.t = "Date" THEN "date"
    ELSE IF value.t = "number" THEN "number"
    ELSE "string"

\* a value is [ t |-> its JavaScript kind, s |-> its characters if a string ]
guessType(value) ==
    IF value.t = "boolean" THEN "boolean"
    ELSE IF value.t = "Date" \/ (value.t = "string" /\ IsoDateTest(value.s))
    THEN "date"
    ELSE IF value.t = "number" THEN "number"
    ELSE "string"

guessFilterType(columnType) ==
    CASE columnType = "date"    -> "date"
      [] columnType = "number"  -> "numeric"
      [] columnType = "boolean" -> "boolean"
      [] OTHER                  -> "text"

\* An element of the data list is an object, Object(entries) with entries
\* the sequence of its [ key, value ] properties in key order, or it is
\* null / undefined (NullRecord).
NullRecord == None
Object(entries) == Some(entries)

\* Object.keys(item) raises a TypeError for null and undefined
ObjectKeysThrows(item) == item = NullRecord

\* the own properties Object.keys(item) enumerates, for an object
ObjectKeys(item) == item[1]

\* deriveColumnsFromData() ends by raising: data[0] is handed to Object.keys
\* without a check
deriveColumnsFromDataThrows(rows) ==
    Len(rows) > 0 /\ ObjectKeysThrows(rows[1])

\* faulty deriveColumnsFromData: the keys are taken last to first
deriveColumnsLastFirst(rows, merged) ==
    IF Len(rows) > 0
    THEN LET firstItem == ObjectKeys(rows[1])
             n == Len(firstItem)
         IN  [ i \in 1..n |->
                 [ field      |-> firstItem[n + 1 - i].key,
                   header     |-> capitalizeHeader(firstItem[n + 1 - i].key),
                   type       |-> Some(guessType(firstItem[n + 1 - i].value)),
                   filterable |-> Some(merged.enableColumnFiltering),
                   filterType |->
                       Some(guessFilterType(
                                guessType(firstItem[n + 1 - i].value))),
                   mustShow   |-> None,
                   minWidth   |-> Some(Px100) ] ]
    ELSE << >>

\* the value deriveColumnsFromData() assigns to derivedColumns when it
\* returns
deriveColumnsFromData(rows, merged) ==
    IF Len(rows) > 0
    THEN LET firstItem == ObjectKeys(rows[1])
         IN  [ i \in 1..Len(firstItem) |->
                 [ field      |-> firstItem[i].key,
                   header     |-> capitalizeHeader(firstItem[i].key),
                   type       |-> Some(guessType(firstItem[i].value)),
                   filterable |-> Some(merged.enableColumnFiltering),
                   filterType |->
                       Some(guessFilterType(guessType(firstItem[i].value))),
                   mustShow   |-> None,
                   minWidth   |-> Some(Px100) ] ]
    ELSE << >>

-----------------------------------------------------------------------------
(* Configuration *)

\* the properties of TableConfiguration the modelled handlers read; the
\* defaults name none of exportDefinitions, customActions, actionHandlers
defaultConfig == [ enableColumnFiltering |-> FALSE,
                   selectionMode         |-> Some("single"),
                   exportDefinitions     |-> None,
                   customActions         |-> None,
                   actionButtons         |-> None,
                   transformers          |-> None,
                   actionHandlers        |-> None ]

\* { ...this.defaultConfig, ...this.config }
MergeConfig(cfg) ==
    [ enableColumnFiltering |->
        IF cfg.enableColumnFiltering = None
        THEN defaultConfig.enableColumnFiltering
        ELSE cfg.enableColumnFiltering[1],
      selectionMode |->
        IF cfg.selectionMode = None
        THEN defaultConfig.selectionMode
        ELSE cfg.selectionMode,
      exportDefinitions |-> cfg.exportDefinitions,
      customActions     |-> cfg.customActions,
      actionButtons     |-> cfg.actionButtons,
      transformers      |-> cfg.transformers,
      actionHandlers    |-> cfg.actionHandlers ]

\* the elements of an optional list, none when it is undefined
OrEmpty(opt) == IF opt = None THEN << >> ELSE opt[1]

-----------------------------------------------------------------------------
(* The selection input *)

\* the selection input is undefined, null, one row, or an array of rows
NoSelection == [ kind |-> "undefined", rows |-> << >> ]
NullSelection == [ kind |-> "null", rows |-> << >> ]
SingleSelection(row) == [ kind |-> "single", rows |-> << row >> ]
ArraySelection(rows) == [ kind |-> "array", rows |-> rows ]

\* faulty syncSelectionFromInput: the one-element list of the single-row
\* branch is used for every input that is not an array
syncSelectionAlwaysWraps(sel) ==
    IF sel.kind = "array" THEN sel.rows
    ELSE IF sel.kind = "single" THEN << sel.rows[1] >>
    ELSE << NullRecord >>

\* the value syncSelectionFromInput() assigns to selectedRows
syncSelectionFromInput(sel) ==
    IF sel.kind \in { "undefined", "null" } THEN << >>
    ELSE IF sel.kind = "array" THEN sel.rows
    ELSE << sel.rows[1] >>

\* whether syncSelectionFromInput() makes selectedRows the input array
\* itself: [], [...this.selection] and [this.selection] are all new arrays
syncSharesInputArray(sel) == FALSE

\* the value emitSelectionChange() emits, with selectedRows = rows
emitSelectionChange(merged, rows) ==
    IF merged.selectionMode = Some("single")
    THEN IF Len(rows) > 0 THEN SingleSelection(rows[1]) ELSE NullSelection
    ELSE ArraySelection(rows)

-----------------------------------------------------------------------------
(* Master columns and the responsive selection *)

\* allMasterColumns.findIndex(c => c.field === field), 0-based, -1 if absent
findIndex(master, field) ==
    IF \E i \in 1..Len(master) : master[i].field = field
    THEN (CHOOSE i \in 1..Len(master) :
             /\ master[i].field = field
             /\ \A j \in 1..(i - 1) : master[j].field # field) - 1
    ELSE -1

\* faulty MustShowPass: a mustShow column is kept only if it fits the width
MustShowPassFitting(master, width) ==
    LET shown == SelectSeq(master,
                     LAMBDA col : Truthy(col.mustShow) /\ width > ColMinWidth(col))
    IN  [ visible |-> shown,
          width   |-> SumSeq([ i \in 1..Len(shown) |-> ColMinWidth(shown[i]) ]) ]

\* pass 1: every mustShow column, whatever the width (width is not read)
MustShowPass(master, width) ==
    LET shown == SelectSeq(master, LAMBDA col : Truthy(col.mustShow))
    IN  [ visible |-> shown,
          width   |-> SumSeq([ i \in 1..Len(shown) |-> ColMinWidth(shown[i]) ]) ]

\* currentVisibleColumns.find(c => c.field === col.field)
AlreadyAdded(visible, col) ==
    \E i \in 1..Len(visible) : visible[i].field = col.field

\* faulty Fits: a column that exactly fills the width is taken
FitsNonStrict(width, accumulatedWidth, colMinWidth) ==
    width >= accumulatedWidth + colMinWidth

\* faulty Fits: the comparison the wrong way round
FitsInverted(width, accumulatedWidth, colMinWidth) ==
    width < accumulatedWidth + colMinWidth

\* tableWidth > accumulatedWidth + colMinWidth
Fits(width, accumulatedWidth, colMinWidth) ==
    width > accumulatedWidth + colMinWidth

\* pass 2: the remaining columns in master order, while they fit
RECURSIVE OptionalPass(_, _, _, _)
OptionalPass(master, i, width, acc) ==
    IF i > Len(master) THEN acc
    ELSE LET col == master[i]
         IN  IF /\ ~Truthy(col.mustShow)
                /\ ~AlreadyAdded(acc.visible, col)
                /\ Fits(width, acc.width, ColMinWidth(col))
             THEN OptionalPass(master, i + 1, width,
                      [ visible |-> Append(acc.visible, col),
                        width   |-> acc.width + ColMinWidth(col) ])
             ELSE OptionalPass(master, i + 1, width, acc)

\* faulty SortByMasterOrder: the collected order is kept
NoSort(visible, master) == visible

\* currentVisibleColumns.sort by findIndex in allMasterColumns (stable)
SortByMasterOrder(visible, master) ==
    Flatten([ k \in 1..(Len(master) + 1) |->
                SelectSeq(visible,
                          LAMBDA col : findIndex(master, col.field) = k - 2) ])

\* the value updateResponsiveColumns assigns to responsiveDisplayColumns
updateResponsiveColumns(master, width) ==
    IF Len(master) = 0 THEN << >>
    ELSE SortByMasterOrder(
             OptionalPass(master, 1, width, MustShowPass(master, width)).visible,
             master)

\* updateMasterColumns: the new master list and responsiveDisplayColumns
updateMasterColumns(defs, derived, responsive) ==
    LET master == IF Len(defs) > 0 THEN defs ELSE derived
    IN  [ master     |-> master,
          responsive |-> IF Len(master) > 0 /\ Len(responsive) = 0
                         THEN master ELSE responsive ]

-----------------------------------------------------------------------------
(* Inputs the host can bind *)

\* container widths (el.nativeElement.offsetWidth), in pixels
Widths == { 50 * k : k \in -1..MaxWidthIdx }

Px50     == << "5", "0", "p", "x" >>
Px150    == << "1", "5", "0", "p", "x" >>
PxMinus50 == << "-", "5", "0", "p", "x" >>
Auto     == << "a", "u", "t", "o" >>

FieldId    == << "i", "d" >>
FieldName  == << "n", "a", "m", "e" >>
FieldEmail == << "e", "m", "a", "i", "l" >>
FieldPhone == << "p", "h", "o", "n", "e" >>
FieldNote  == << "n", "o", "t", "e" >>

\* a host-written column definition: only the properties the host sets
Col(field, header, mustShow, minWidth) ==
    [ field |-> field, header |-> header, type |-> None, filterable |-> None,
      filterType |-> None, mustShow |-> mustShow, minWidth |-> minWidth ]

ColId       == Col(FieldId,    << "I", "D" >>,           Some(TRUE),  Some(Px50))
ColIdAlt    == Col(FieldId,    << "N", "o" >>,           Some(TRUE),  Some(Auto))
ColNameNeg  == Col(FieldName,  << "N", "a", "m", "e" >>, Some(TRUE),  Some(PxMinus50))
ColNameWide == Col(FieldName,  << "F", "u", "l", "l" >>, Some(FALSE), Some(Px150))
ColEmail    == Col(FieldEmail, << "M", "a", "i", "l" >>, None,        Some(Px150))
ColPhone    == Col(FieldPhone, << "T", "e", "l" >>,      Some(FALSE), Some(Px50))
ColPhoneNeg == Col(FieldPhone, << "F", "a", "x" >>,      None,        Some(PxMinus50))
ColNote     == Col(FieldNote,  << "N", "o", "t", "e" >>, None,        None)
ColCc       == Col(FieldEmail, << "C", "c" >>,           Some(FALSE), Some(<< >>))

\* host-written columns: duplicate fields (id, name, email, phone), widths
\* that are missing, empty, unparsable, negative, and equal pairs
ColumnPool == { ColId, ColIdAlt, ColNameNeg, ColNameWide, ColEmail, ColPhone,
                ColPhoneNeg, ColNote, ColCc }

\* column definition lists of the responsive-selection specification
ColumnDefLists == InjSeqs(ColumnPool, MaxCols)

\* column definition lists the host rebinds during the component's life
ColumnDefsInputs == { << >>, << ColId, ColNameWide, ColPhone >> }

\* s holds the characters String(value) gives: the number 7 and true
NumberValue  == [ t |-> "number",  s |-> << "7" >> ]
BooleanValue == [ t |-> "boolean", s |-> << "t", "r", "u", "e" >> ]
NullValue    == [ t |-> "null",    s |-> << >> ]
StringValue(chars) == [ t |-> "string", s |-> chars ]

IsoString == << "2", "0", "2", "4", "-", "0", "1", "-", "1", "5", "T",
                "1", "0", ":", "3", "0", ":", "0", "0", "Z" >>

RowA == Object(<<
           [ key |-> FieldId,   value |-> NumberValue ],
           [ key |-> FieldName, value |-> StringValue(<< "J", "a", "n", "e" >>) ],
           [ key |-> << "c", "r", "e", "a", "t", "e", "d", "A", "t" >>,
             value |-> StringValue(IsoString) ],
           [ key |-> << "a", "c", "t", "i", "v", "e" >>, value |-> BooleanValue ] >>)

RowB == Object(<<
           [ key |-> FieldEmail, value |-> NullValue ],
           [ key |-> FieldPhone, value |-> StringValue(<< "1", "2" >>) ] >>)

DataInputs == { << >>, << RowA, RowB >>, << RowB >> }

\* config = {}
EmptyConfig == [ enableColumnFiltering |-> None,
                 selectionMode         |-> None,
                 exportDefinitions     |-> None,
                 customActions         |-> None,
                 actionButtons         |-> None,
                 transformers          |-> None,
                 actionHandlers        |-> None ]

ConfigInputs == { EmptyConfig,
                  [ EmptyConfig EXCEPT !.enableColumnFiltering = Some(TRUE) ] }

\* values of the remaining JavaScript kinds guessType tells apart
DateValue      == [ t |-> "Date",      s |-> << >> ]
UndefinedValue == [ t |-> "undefined", s |-> << >> ]
ObjectValue    == [ t |-> "object",    s |-> << >> ]

\* a date without a time: the start of the ISO pattern, but not all of it
DateOnlyString == << "2", "0", "2", "4", "-", "0", "1", "-", "1", "5" >>

\* the properties the first record is built from: every kind of value, and
\* keys with no, an inner and a leading uppercase letter, and the empty key
EntryPool ==
    { [ key |-> FieldId, value |-> NumberValue ],
      [ key |-> << "a", "c", "t", "i", "v", "e" >>, value |-> BooleanValue ],
      [ key |-> << "c", "r", "e", "a", "t", "e", "d", "A", "t" >>,
        value |-> StringValue(IsoString) ],
      [ key |-> << "C", "r", "e", "a", "t", "e", "d", "A", "t" >>,
        value |-> DateValue ],
      [ key |-> FieldName, value |-> StringValue(<< "J", "a", "n", "e" >>) ],
      [ key |-> FieldEmail, value |-> NullValue ],
      [ key |-> FieldNote, value |-> UndefinedValue ],
      [ key |-> << "m", "e", "t", "a" >>, value |-> ObjectValue ],
      [ key |-> << "d", "u", "e" >>, value |-> StringValue(DateOnlyString) ],
      [ key |-> << >>, value |-> StringValue(<< "1", "2" >>) ] }

\* objects of at most MaxKeys properties, the object without properties
\* among them; no two properties of the pool share a key
InferenceRecords == { Object(e) : e \in InjSeqs(EntryPool, MaxKeys) }

\* data lists column inference is run on: the empty list, lists led by null
\* or undefined, and lists led by an object
InferenceData ==
    { << >>, << NullRecord >>, << NullRecord, RowB >>, << Object(<< >>), RowA >> }
        \cup { << r >> : r \in InferenceRecords }

InputNames == { "config", "data", "columnDefs" }

\* the SimpleChanges objects ngOnChanges is called with: one input rebound, or
\* all of them (the first binding).  An input among the changes may be given
\* the value it already has, so a change of two inputs is the change of all
\* three that leaves the third as it is.
ChangeSets == { { "config" }, { "data" }, { "columnDefs" }, InputNames }

-----------------------------------------------------------------------------
(* Export *)

\* String.prototype.includes
Includes(s, sub) ==
    \E i \in 0..(Len(s) - Len(sub)) :
        \A j \in 1..Len(sub) : s[i + j] = sub[j]

SelectedWord == << "s", "e", "l", "e", "c", "t", "e", "d" >>
FilteredWord == << "f", "i", "l", "t", "e", "r", "e", "d" >>

\* item[key]: the value of the property, undefined when the object has none
Property(item, key) ==
    LET entries == ObjectKeys(item)
    IN  IF \E i \in 1..Len(entries) : entries[i].key = key
        THEN entries[CHOOSE i \in 1..Len(entries) : entries[i].key = key].value
        ELSE UndefinedValue

\* !value, for the kinds of value an errorMessage has in the model:
\* undefined, null and strings (only the empty string is falsy)
Falsy(value) ==
    \/ value.t \in { "undefined", "null" }
    \/ value.t = "string" /\ value.s = << >>

ErrorMessageKey ==
    << "e", "r", "r", "o", "r", "M", "e", "s", "s", "a", "g", "e" >>

errorMessage(item) == Property(item, ErrorMessageKey)

\* faulty IsSuccessful: a row with an empty errorMessage counts as failed
IsSuccessfulAbsentOnly(item) == errorMessage(item).t \in { "undefined", "null" }

\* !errorMessage || errorMessage === ""
IsSuccessful(item) ==
    Falsy(errorMessage(item)) \/ errorMessage(item) = StringValue(<< >>)

\* errorMessage && errorMessage !== ""
IsFailed(item) ==
    ~Falsy(errorMessage(item)) /\ errorMessage(item) # StringValue(<< >>)

\* the functions an export definition may carry, by name
\*   filterFn  "dropFirst": (data) => data.slice(1)
\*   columnsFn "firstOnly": (columns) => columns.slice(0, 1)
ApplyFilterFn(fn, rows) ==
    CASE fn = "dropFirst" -> IF rows = << >> THEN << >> ELSE Tail(rows)

ApplyColumnsFn(fn, columns) ==
    CASE fn = "firstOnly" -> IF columns = << >> THEN << >> ELSE << Head(columns) >>

\* faulty displayColumns: the responsive selection without the fallback
displayColumnsResponsiveOnly == responsiveDisplayColumns

\* get displayColumns()
displayColumns ==
    IF Len(responsiveDisplayColumns) > 0 THEN responsiveDisplayColumns
    ELSE allMasterColumns

\* getGlobalFilterFields()
getGlobalFilterFields ==
    [ i \in 1..Len(displayColumns) |-> displayColumns[i].field ]

\* the definition is treated as "Export Selected"
IsExportSelected(definition) ==
    \/ definition.label = "common.actions.exportSelection"
    \/ definition.fileName # None /\ Includes(definition.fileName[1], SelectedWord)

\* the definition is treated as "Export Filtered"
IsExportFiltered(definition) ==
    \/ definition.label = "common.actions.exportFiltered"
    \/ definition.fileName # None /\ Includes(definition.fileName[1], FilteredWord)

\* faulty CustomDataToExport: filterFn is applied before the label and the
\* file name are looked at, and nothing else is
CustomDataToExportFilterOnly(definition) ==
    IF definition.filterFn # None
    THEN ApplyFilterFn(definition.filterFn[1], data)
    ELSE data

\* dataToExport of performExport() for a custom definition
CustomDataToExport(definition) ==
    IF IsExportSelected(definition) THEN selectedRows
    ELSE IF IsExportFiltered(definition)
    THEN IF Len(currentFilteredData) > 0 THEN currentFilteredData ELSE data
    ELSE IF definition.filterFn # None
    THEN ApplyFilterFn(definition.filterFn[1], data)
    ELSE data

\* dataToExport of performExport() for a default export type
DefaultDataToExport(type) ==
    CASE type = "selected"   -> selectedRows
      [] type = "successful" -> SelectSeq(data, IsSuccessful)
      [] type = "failed"     -> SelectSeq(data, IsFailed)
      [] OTHER               -> data

\* columnsToExport of performExport(): computed, and then not used
ColumnsToExport(definition) ==
    IF definition.columnsFn # None
    THEN ApplyColumnsFn(definition.columnsFn[1], displayColumns)
    ELSE displayColumns

\* what performExport() emits: exportData.emit(dataToExport) on either path
ExportEvents(current, type) ==
    << [ output  |-> "exportData",
         payload |-> IF current # None THEN CustomDataToExport(current[1])
                     ELSE DefaultDataToExport(type) ] >>

-----------------------------------------------------------------------------
(* DataTablePanelComponent *)

\* the inputs the panel declares and binds to the table input of the same
\* name
PanelInputNames == { "data", "columnDefs", "config", "loading", "selection" }

\* the panel's inputs as declared: columnDefs, config and selection are
\* undefined
PanelDefaults ==
    [ data |-> << >>, columnDefs |-> None, config |-> None,
      loading |-> FALSE, selection |-> NoSelection ]

\* the panel's inputs after the page has bound what it has an input for
PanelInputsOf(page) ==
    [ data |-> page.data, columnDefs |-> page.columnDefs,
      config |-> page.config, loading |-> page.loading,
      selection |-> page.selection ]

\* a configuration bound as undefined merges like the empty one
ConfigOrEmpty(opt) == IF opt = None THEN EmptyConfig ELSE opt[1]

ColumnDefsShown == << ColId, ColNameWide, ColPhone >>

\* what a page wants its table to show: for each input of the table a value
HostInputs ==
    { [ data |-> << >>, columnDefs |-> None, config |-> None,
        loading |-> TRUE, totalRecords |-> 0, selection |-> NoSelection ],
      [ data |-> << RowA, RowB >>, columnDefs |-> None, config |-> None,
        loading |-> FALSE, totalRecords |-> 50,
        selection |-> ArraySelection(<< RowB >>) ],
      [ data |-> << RowA, RowB >>, columnDefs |-> Some(ColumnDefsShown),
        config |-> Some([ EmptyConfig EXCEPT
                            !.enableColumnFiltering = Some(TRUE) ]),
        loading |-> FALSE, totalRecords |-> 2,
        selection |-> SingleSelection(RowA) ],
      [ data |-> << RowB >>, columnDefs |-> Some(ColumnDefsShown),
        config |-> Some(EmptyConfig),
        loading |-> TRUE, totalRecords |-> 0, selection |-> NoSelection ] }

\* pagination and sort events of the PrimeNG table
PageEvents == { [ first |-> 0, rows |-> 15 ], [ first |-> 15, rows |-> 15 ] }
SortEvents == { << >>, << [ field |-> FieldId, order |-> 1 ] >> }

-----------------------------------------------------------------------------
(* The panel's output bindings *)

\* the outputs of the table the panel template binds a re-emitting handler
\* to, each to the panel output of the same name
PanelOutputBindings ==
    { "rowSelected", "rowUnselected", "selectionChange", "pageChanged",
      "sortChanged", "filterChanged", "exportData", "filteredData" }

\* the events the panel emits in answer to events of the table
PanelForward(events) ==
    LET Bound(e) == e.output \in PanelOutputBindings
    IN  SelectSeq(events, Bound)

-----------------------------------------------------------------------------
(* Inputs of the export *)

\* rows whose errorMessage is absent, empty, null, or a message
RowOk       == Object(<< [ key |-> FieldId, value |-> NumberValue ] >>)
RowEmptyMsg == Object(<< [ key |-> FieldId, value |-> NumberValue ],
                         [ key |-> ErrorMessageKey,
                           value |-> StringValue(<< >>) ] >>)
RowNullMsg  == Object(<< [ key |-> FieldId, value |-> NumberValue ],
                         [ key |-> ErrorMessageKey, value |-> NullValue ] >>)
RowFailed   == Object(<< [ key |-> FieldId, value |-> NumberValue ],
                         [ key |-> ErrorMessageKey,
                           value |-> StringValue(<< "E", "1" >>) ] >>)
RowFailed2  == Object(<< [ key |-> ErrorMessageKey,
                           value |-> StringValue(<< "E", "2" >>) ],
                         [ key |-> FieldId, value |-> NumberValue ] >>)

\* data lists the export runs on
ExportDataInputs ==
    { << >>,
      << RowOk >>,
      << RowFailed >>,
      << RowFailed, RowOk, RowEmptyMsg >>,
      << RowNullMsg, RowFailed2, RowFailed >>,
      << RowOk, RowFailed, RowEmptyMsg, RowFailed2, RowNullMsg >> }

\* selection inputs bound together with a data list: none, or the last and
\* the first row of the list, in that order
ExportSelectionInputs(rows) ==
    { NoSelection }
        \cup IF rows = << >> THEN { }
             ELSE { ArraySelection(<< rows[Len(rows)], rows[1] >>) }

ExportDefinition(label, fileName, filterFn, columnsFn) ==
    [ label |-> label, fileName |-> fileName,
      filterFn |-> filterFn, columnsFn |-> columnsFn ]

\* the definitions of the usage guide: plain, with filterFn, with columnsFn
DefAll     == ExportDefinition("Export All Data",
                  Some(<< "a", "l", "l" >>), None, None)
DefHigh    == ExportDefinition("Export High Value",
                  Some(<< "h", "i", "g", "h" >>), Some("dropFirst"), None)
DefSummary == ExportDefinition("Export Summary",
                  Some(<< "s", "u", "m", "m", "a", "r", "y" >>),
                  None, Some("firstOnly"))
\* no file name, both functions
DefBoth    == ExportDefinition("Export Part", None,
                  Some("dropFirst"), Some("firstOnly"))
\* definitions with a filterFn whose label or file name the export reads
DefSelectionLabel == ExportDefinition("common.actions.exportSelection", None,
                         Some("dropFirst"), None)
DefSelectedFile   == ExportDefinition("Report", Some(SelectedWord),
                         Some("dropFirst"), None)
DefFilteredLabel  == ExportDefinition("common.actions.exportFiltered", None,
                         Some("dropFirst"), None)
DefUnfilteredFile == ExportDefinition("Everything",
                         Some(<< "u", "n" >> \o FilteredWord),
                         Some("dropFirst"), None)

ExportDefinitions ==
    << DefAll, DefHigh, DefSummary, DefBoth, DefSelectionLabel,
       DefSelectedFile, DefFilteredLabel, DefUnfilteredFile >>

ExportConfigInputs ==
    { EmptyConfig,
      [ EmptyConfig EXCEPT !.exportDefinitions = Some(ExportDefinitions) ] }

DefaultExportTypes == { "all", "selected", "successful", "failed" }

\* the filter events of the PrimeNG table: filters and filteredValue may be
\* missing; filteredValue may be empty or hold the first row only
FilterEvents(rows) ==
    { [ filters |-> None, filteredValue |-> None ],
      [ filters |-> Some({ FieldId }), filteredValue |-> Some(<< >>) ] }
        \cup IF rows = << >> THEN { }
             ELSE { [ filters |-> Some({ FieldId }),
                      filteredValue |-> Some(<< rows[1] >>) ] }

-----------------------------------------------------------------------------
(* Cells *)

FalseValue == [ t |-> "boolean", s |-> << "f", "a", "l", "s", "e" >> ]
ZeroValue  == [ t |-> "number",  s |-> << "0" >> ]

\* the value as a condition: undefined, null, false, 0 and "" are falsy
ToBoolean(value) ==
    CASE value.t \in { "undefined", "null" } -> FALSE
      [] value.t = "boolean" -> value.s = BooleanValue.s
      [] value.t = "number"  -> value.s # << "0" >>
      [] value.t = "string"  -> value.s # << >>
      [] OTHER -> TRUE

\* the characters of the text before the first "/" of s
RECURSIVE BeforeSlash(_)
BeforeSlash(s) ==
    IF s = << >> \/ Head(s) = "/" THEN << >>
    ELSE << Head(s) >> \o BeforeSlash(Tail(s))

\* the text after the first "/" of s, undefined (None) when s has no "/"
RECURSIVE AfterSlash(_)
AfterSlash(s) ==
    IF s = << >> THEN None
    ELSE IF Head(s) = "/" THEN Some(Tail(s))
    ELSE AfterSlash(Tail(s))

\* format?.split("/"): the parts, undefined (None) when there is no format
RECURSIVE Split(_)
Split(s) ==
    IF AfterSlash(s) = None THEN << s >>
    ELSE << BeforeSlash(s) >> \o Split(AfterSlash(s)[1])

SplitFormat(format) == IF format = None THEN None ELSE Some(Split(format[1]))

\* parts?.[i] || fallback, i counted from 1
PartOr(parts, i, fallback) ==
    IF parts # None /\ i <= Len(parts[1]) /\ parts[1][i] # << >>
    THEN parts[1][i]
    ELSE fallback

Ja   == << "J", "a" >>
Nein == << "N", "e", "i", "n" >>

\* whether the text has the date-time format of ECMAScript: YYYY-MM-DD with
\* a month 01..12 and a day 01..31, alone or followed by THH:mm:ssZ
IsDateTimeFormat(s) ==
    /\ Len(s) \in { 10, 20 }
    /\ \A i \in { 1, 2, 3, 4, 6, 7, 9, 10 } : IsDigit(s[i])
    /\ s[5] = "-" /\ s[8] = "-"
    /\ 10 * DigitVal(s[6]) + DigitVal(s[7]) \in 1..12
    /\ 10 * DigitVal(s[9]) + DigitVal(s[10]) \in 1..31
    /\ Len(s) = 20 =>
          /\ s[11] = "T" /\ s[14] = ":" /\ s[17] = ":" /\ s[20] = "Z"
          /\ \A i \in { 12, 13, 15, 16, 18, 19 } : IsDigit(s[i])
          /\ 10 * DigitVal(s[12]) + DigitVal(s[13]) \in 0..23
          /\ 10 * DigitVal(s[15]) + DigitVal(s[16]) \in 0..59
          /\ 10 * DigitVal(s[18]) + DigitVal(s[19]) \in 0..59

\* !isNaN(new Date(text).getTime()): a text in the date-time format is
\* parsed; for any other text the outcome is left to the implementation
DateParses(s) == IF IsDateTimeFormat(s) THEN { TRUE } ELSE { TRUE, FALSE }

\* a column as getCellData reads it; transform and customRender are
\* functions, given by name
CellColumn(field, type, format, transformKey, transform, customRender) ==
    [ field |-> field, type |-> type, format |-> format,
      transformKey |-> transformKey, transform |-> transform,
      customRender |-> customRender ]

\* what getCellData returns: the result of calling a function, a Date, a
\* text, or the raw value of the field
Called(fn, rowData, col) ==
    [ kind |-> "call", fn |-> fn, arguments |-> Some(<< rowData, col >>),
      value |-> UndefinedValue ]
Returned(kind, value) ==
    [ kind |-> kind, fn |-> "", arguments |-> None, value |-> value ]

\* the transformer registered under the column's transformKey, if any
Transformer(merged, col) ==
    IF /\ col.transformKey # None /\ col.transformKey[1] # ""
       /\ merged.transformers # None
       /\ col.transformKey[1] \in DOMAIN merged.transformers[1]
    THEN Some(merged.transformers[1][col.transformKey[1]])
    ELSE None

\* the type and value rules at the end of getCellData; parsable is the
\* outcome of new Date(value)
FormatCell(rowData, col, parsable) ==
    LET value == Property(rowData, col.field)
    IN  IF /\ col.type = Some("date") /\ ToBoolean(value)
           /\ value.t = "string" /\ parsable
        THEN Returned("date", value)
        ELSE IF col.type = Some("boolean")
        THEN Returned("text",
                 StringValue(IF ToBoolean(value)
                             THEN PartOr(SplitFormat(col.format), 1, Ja)
                             ELSE PartOr(SplitFormat(col.format), 2, Nein)))
        ELSE Returned("raw", value)

\* faulty getCellData: the column's own transform is looked at first
getCellDataTransformFirst(merged, rowData, col, parsable) ==
    IF col.transform # None
    THEN Called(col.transform[1], rowData, col)
    ELSE IF Transformer(merged, col) # None
    THEN Called(Transformer(merged, col)[1], rowData, col)
    ELSE IF col.customRender # None /\ col.type = Some("custom")
    THEN Called(col.customRender[1], rowData, col)
    ELSE FormatCell(rowData, col, parsable)

\* getCellData(rowData, col)
getCellData(merged, rowData, col, parsable) ==
    IF Transformer(merged, col) # None
    THEN Called(Transformer(merged, col)[1], rowData, col)
    ELSE IF col.transform # None
    THEN Called(col.transform[1], rowData, col)
    ELSE IF col.customRender # None /\ col.type = Some("custom")
    THEN Called(col.customRender[1], rowData, col)
    ELSE FormatCell(rowData, col, parsable)

\* the columns of the cells: every type with and without a format, a
\* transformKey (empty, registered or not), a transform and a customRender
CellFormats ==
    { None, Some(<< >>), Some(<< "Y", "e", "s" >>),
      Some(<< "Y", "e", "s", "/", "N", "o" >>), Some(<< "/", "N", "o" >>),
      Some(<< "O", "n", "/", "O", "f", "f", "/", "-" >>) }

CellColumns ==
    { CellColumn(FieldNote, type, format, transformKey, transform,
                 customRender) :
          type \in { None, Some("date"), Some("boolean"), Some("custom") },
          format \in CellFormats,
          transformKey \in { None, Some(""), Some("upper"), Some("lower") },
          transform \in { None, Some("ownTransform") },
          customRender \in { None, Some("render") } }

\* rows whose field is a text in the date-time format, a date alone, another
\* text, the empty text, true, false, 0, a number, null, or missing
CellRows ==
    { Object(<< [ key |-> FieldNote, value |-> value ] >>) :
          value \in { StringValue(IsoString), StringValue(DateOnlyString),
                      StringValue(<< "J", "a", "n", "e" >>),
                      StringValue(<< >>), BooleanValue, FalseValue,
                      ZeroValue, NumberValue, NullValue } }
        \cup { Object(<< >>) }

\* a cell the template is about to render: a row, a column, and the outcome
\* new Date() will have on the value of the field
CellsToRender ==
    UNION { { Some([ rowData |-> rowData, col |-> col, parsable |-> parsable,
                     result |-> None ]) :
                parsable \in DateParses(Property(rowData, col.field).s) } :
            rowData \in CellRows, col \in CellColumns }

\* config.transformers: missing, empty, or a transformer for "upper"
CellConfigInputs ==
    { [ EmptyConfig EXCEPT !.transformers = t ] :
          t \in { None, Some([ k \in { } |-> "" ]),
                  Some([ k \in { "upper" } |-> "toUpper" ]) } }

-----------------------------------------------------------------------------
(* Toolbar actions *)

\* ActionButtonDefinition.disabled: a boolean, or a function of the selected
\* rows, given by name
\*   "whenMany": (rows) => rows.length > 1
\*   "never":    (rows) => false
DisabledFlag(b) == [ kind |-> "boolean", value |-> b, fn |-> "" ]
DisabledFn(name) == [ kind |-> "function", value |-> TRUE, fn |-> name ]

ApplyDisabledFn(fn, rows) ==
    CASE fn = "whenMany" -> Len(rows) > 1
      [] fn = "never"    -> FALSE

ActionButton(label, disabled, requiresSelection, requiresSingleSelection) ==
    [ label |-> label, disabled |-> disabled,
      requiresSelection |-> requiresSelection,
      requiresSingleSelection |-> requiresSingleSelection ]

\* isToolbarActionDisabled(action), with selectedRows = rows
isToolbarActionDisabled(action, rows) ==
    IF action.disabled # None /\ action.disabled[1].value
    THEN IF action.disabled[1].kind = "function"
         THEN ApplyDisabledFn(action.disabled[1].fn, rows)
         ELSE action.disabled[1].value
    ELSE FALSE

\* the disabled flag buildActionsPanelButtons() computes for one definition,
\* with selectedRows = rows
ActionsPanelDisabled(actionDef, rows) ==
    LET own == IF actionDef.disabled = None THEN FALSE
               ELSE IF actionDef.disabled[1].kind = "function"
               THEN ApplyDisabledFn(actionDef.disabled[1].fn, rows)
               ELSE actionDef.disabled[1].value
    IN  IF /\ actionDef.requiresSingleSelection = Some(TRUE)
           /\ Len(rows) # 1
        THEN TRUE
        ELSE IF actionDef.requiresSelection = Some(TRUE) /\ Len(rows) = 0
        THEN TRUE
        ELSE own

\* buildActionsPanelButtons(), with selectedRows = rows: the value assigned
\* to actionsPanelButtons
buildActionsPanelButtons(merged, rows) ==
    [ i \in 1..Len(OrEmpty(merged.actionButtons)) |->
        [ label    |-> merged.actionButtons[1][i].label,
          disabled |-> ActionsPanelDisabled(merged.actionButtons[1][i],
                                            rows) ] ]

\* initializeExportMenu(), with selectedRows = rows: the value assigned to
\* exportMenuItems; an item is the call its command makes and its disabled
\* property
initializeExportMenu(merged, rows) ==
    IF Len(OrEmpty(merged.exportDefinitions)) > 0
    THEN [ i \in 1..Len(merged.exportDefinitions[1]) |->
             [ command  |-> "selectExportDefinition",
               argument |-> merged.exportDefinitions[1][i].label,
               disabled |-> None ] ]
    ELSE << [ command |-> "selectDefaultExport", argument |-> "all",
              disabled |-> None ],
            [ command |-> "selectDefaultExport", argument |-> "selected",
              disabled |-> Some(Len(rows) = 0) ],
            [ command |-> "selectDefaultExport", argument |-> "successful",
              disabled |-> None ],
            [ command |-> "selectDefaultExport", argument |-> "failed",
              disabled |-> None ] >>

ActionPool ==
    { ActionButton("open",   None, None, None),
      ActionButton("edit",   None, Some(TRUE), None),
      ActionButton("detail", None, None, Some(TRUE)),
      ActionButton("locked", Some(DisabledFlag(TRUE)), None, None),
      ActionButton("delete", Some(DisabledFlag(FALSE)), Some(TRUE), None),
      ActionButton("merge",  Some(DisabledFn("never")), Some(TRUE), None),
      ActionButton("rename", Some(DisabledFn("whenMany")), None, Some(TRUE)),
      ActionButton("reload", None, Some(FALSE), Some(FALSE)) }

\* configurations with action buttons for the actions panel, in 'single'
\* selection mode (the default) or in 'multiple'
ActionButtonsInputs ==
    { None,
      Some(<< ActionButton("edit", None, Some(TRUE), None),
              ActionButton("detail", None, Some(FALSE), Some(TRUE)) >>),
      Some(<< ActionButton("locked", Some(DisabledFlag(TRUE)), None, None),
              ActionButton("rename", Some(DisabledFn("whenMany")), None,
                           None) >>) }

SelectionConfigInputs ==
    { [ EmptyConfig EXCEPT !.actionButtons = buttons, !.selectionMode = mode ] :
          buttons \in ActionButtonsInputs,
          mode \in { None, Some("multiple") } }

\* configurations with at most MaxActions custom actions
ToolbarConfigInputs ==
    { [ EmptyConfig EXCEPT !.customActions = Some(actions) ] :
          actions \in InjSeqs(ActionPool, MaxActions) \ { << >> } }
        \cup { EmptyConfig }

-----------------------------------------------------------------------------
(* Row actions *)

\* a ColumnAction: command and the handlers of config.actionHandlers are
\* functions, given by name; every action of the model is visible
ColumnAction(label, command, key) ==
    [ label |-> label, command |-> command, key |-> key ]

\* faulty resolveActionHandler: the handler registered under the key is
\* preferred to the inline command
resolveActionHandlerKeyFirst(action, merged) ==
    IF /\ action.key # None /\ action.key[1] # ""
       /\ merged.actionHandlers # None
       /\ action.key[1] \in DOMAIN merged.actionHandlers[1]
    THEN Some(merged.actionHandlers[1][action.key[1]])
    ELSE action.command

\* resolveActionHandler(action): the handler, or undefined (None)
resolveActionHandler(action, merged) ==
    IF action.command # None THEN action.command
    ELSE IF /\ action.key # None /\ action.key[1] # ""
            /\ merged.actionHandlers # None
    THEN IF action.key[1] \in DOMAIN merged.actionHandlers[1]
         THEN Some(merged.actionHandlers[1][action.key[1]])
         ELSE None
    ELSE None

\* String(value) as a template literal inserts it
ToStringChars(value) ==
    CASE value.t = "object" ->
            << "[", "o", "b", "j", "e", "c", "t", " ",
               "O", "b", "j", "e", "c", "t", "]" >>
      [] OTHER -> value.s

\* JSON.stringify of a property value; the texts of the model need no
\* escaping
StringifyValue(value) ==
    CASE value.t = "string" -> << "\"" >> \o value.s \o << "\"" >>
      [] value.t = "null" -> << "n", "u", "l", "l" >>
      [] value.t = "object" -> << "{", "}" >>
      [] OTHER -> value.s

\* the "key":value texts of the entries, those with an undefined value left
\* out, separated by commas
RECURSIVE StringifyEntries(_)
StringifyEntries(entries) ==
    IF entries = << >> THEN << >>
    ELSE IF Head(entries).value.t = "undefined"
    THEN StringifyEntries(Tail(entries))
    ELSE LET first == << "\"" >> \o Head(entries).key \o << "\"", ":" >>
                          \o StringifyValue(Head(entries).value)
             rest == StringifyEntries(Tail(entries))
         IN  IF rest = << >> THEN first ELSE first \o << "," >> \o rest

\* JSON.stringify(rowData)
Stringify(rowData) ==
    << "{" >> \o StringifyEntries(ObjectKeys(rowData)) \o << "}" >>

FieldUuid == << "u", "u", "i", "d" >>

\* rowData.id || rowData.uuid || JSON.stringify(rowData), as text
RowIdText(rowData) ==
    IF ToBoolean(Property(rowData, FieldId))
    THEN ToStringChars(Property(rowData, FieldId))
    ELSE IF ToBoolean(Property(rowData, FieldUuid))
    THEN ToStringChars(Property(rowData, FieldUuid))
    ELSE Stringify(rowData)

FieldActions == << "a", "c", "t", "i", "o", "n", "s" >>

\* `${col.field || "actions"}_${rowId}`
CacheKey(rowData, col) ==
    (IF col.field = << >> THEN FieldActions ELSE col.field)
        \o << "_" >> \o RowIdText(rowData)

\* the cache has an entry under the key
CacheHas(cache, key) == \E entry \in cache : entry.key = key

\* menuItemsCache.get(cacheKey)
CacheGet(cache, key) == (CHOOSE entry \in cache : entry.key = key).items

\* the menu items built for the row at the index of data: one per action of
\* the column, its command bound to the action and to the row object
NewMenuItems(rows, index, col) ==
    [ k \in 1..Len(col.actions[1]) |->
        [ action |-> col.actions[1][k], rowData |-> rows[index],
          index |-> index ] ]

\* what getRowActionMenuItems(rowData, col) returns for the row at the index
\* of data, key being the cache key of the row and the column
MenuItems(cache, key, rows, index, col) ==
    IF col.actions = None THEN << >>
    ELSE IF CacheHas(cache, key) THEN CacheGet(cache, key)
    ELSE NewMenuItems(rows, index, col)

\* menuItemsCache after getRowActionMenuItems(rowData, col)
CacheAfter(cache, key, rows, index, col) ==
    IF col.actions = None \/ CacheHas(cache, key) THEN cache
    ELSE cache \cup { [ key   |-> key,
                        items |-> NewMenuItems(rows, index, col) ] }

RowActionPool ==
    { ColumnAction("Edit",    Some("editInline"), Some("edit")),
      ColumnAction("View",    Some("viewInline"), None),
      ColumnAction("Edit 2",  None,               Some("edit")),
      ColumnAction("Delete",  None,               Some("delete")),
      ColumnAction("Archive", None,               Some("archive")),
      ColumnAction("Info",    None,               None) }

\* config.actionHandlers: missing, empty, or handlers for some of the keys
ActionHandlersInputs ==
    { None,
      Some([ k \in { } |-> "" ]),
      Some([ k \in { "edit" } |-> "onEdit" ]),
      Some([ k \in { "edit", "delete" } |->
                 IF k = "edit" THEN "onEdit" ELSE "onDelete" ]) }

RowActionConfigInputs ==
    { [ EmptyConfig EXCEPT !.actionHandlers = h ] : h \in ActionHandlersInputs }

\* the columns of the row menus: two actions columns, one without a field
\* name, and a column without actions
RowActionColumns ==
    { [ field   |-> << >>,
        actions |-> Some(<< ColumnAction("Edit", Some("editInline"),
                                         Some("edit")),
                            ColumnAction("View", Some("viewInline"), None),
                            ColumnAction("Edit 2", None, Some("edit")) >>) ],
      [ field   |-> << "m", "o", "r", "e" >>,
        actions |-> Some(<< ColumnAction("Delete", None, Some("delete")),
                            ColumnAction("Archive", None, Some("archive")),
                            ColumnAction("Info", None, None) >>) ],
      [ field |-> FieldName, actions |-> None ] }

\* rows of the row menus: with an id, with the same id, with the id as a
\* text, with a uuid, and without either
RowJane  == Object(<< [ key |-> FieldId, value |-> NumberValue ],
                      [ key |-> FieldName,
                        value |-> StringValue(<< "J", "a", "n", "e" >>) ] >>)
RowJohn  == Object(<< [ key |-> FieldId, value |-> NumberValue ],
                      [ key |-> FieldName,
                        value |-> StringValue(<< "J", "o", "h", "n" >>) ] >>)
RowText7 == Object(<< [ key |-> FieldId, value |-> StringValue(<< "7" >>) ] >>)
RowUuid  == Object(<< [ key |-> FieldId, value |-> ZeroValue ],
                      [ key |-> FieldUuid, value |-> StringValue(<< "u" >>) ] >>)
RowPlain == Object(<< [ key |-> FieldName,
                        value |-> StringValue(<< "J", "a", "n", "e" >>) ] >>)

\* the data lists of the row menus
RowMenuData ==
    { << RowJane, RowJohn >>, << RowPlain, RowPlain >>,
      << RowUuid, RowText7 >> }

-----------------------------------------------------------------------------
(* The handlers *)

\* the handler emits the events, which the panel, if there is one, re-emits
Emit(events) ==
    /\ emitted' = events
    /\ panelEmitted' = IF panel = None THEN << >> ELSE PanelForward(events)

\* faulty RecomputeColumns: updateResponsiveColumns() is not called
RecomputeMasterOnly(defs, derived, responsive, width) ==
    updateMasterColumns(defs, derived, responsive)

\* the handler emits nothing and calls no callback
NoEvents ==
    /\ emitted' = << >>
    /\ panelEmitted' = << >>
    /\ invoked' = << >>
    /\ triggered' = None

\* updateMasterColumns() followed by updateResponsiveColumns(), as ngOnInit
\* and ngOnChanges call them
RecomputeColumns(defs, derived, responsive, width) ==
    LET um == updateMasterColumns(defs, derived, responsive)
    IN  [ master     |-> um.master,
          responsive |-> updateResponsiveColumns(um.master, width) ]

\* offsetWidth is read only when the master list is not empty
ReadWidth(master, width) == IF Len(master) = 0 THEN tableWidth ELSE width

\* inside a panel ngOnInit follows the first binding of the inputs
ngOnInit ==
    /\ phase = "constructed"
    /\ panel # None => host # None
    /\ mergedConfig' = MergeConfig(config)
    /\ IF Len(columnDefs) = 0 /\ deriveColumnsFromDataThrows(data)
       THEN \* the TypeError leaves ngOnInit at line 401
            /\ thrown' = TRUE
            /\ UNCHANGED << derivedColumns, allMasterColumns,
                            responsiveDisplayColumns, tableWidth,
                            currentFilteredData, customActionButtons,
                            currentExportDefinition, selectedRows,
                            exportMenuItems, actionsPanelButtons, aliased >>
       ELSE /\ derivedColumns' =
                   IF Len(columnDefs) = 0
                   THEN deriveColumnsFromData(data, mergedConfig')
                   ELSE derivedColumns
            /\ \E width \in Widths :
               \E rc \in { RecomputeColumns(columnDefs, derivedColumns',
                                            responsiveDisplayColumns,
                                            width) } :
                   /\ allMasterColumns' = rc.master
                   /\ responsiveDisplayColumns' = rc.responsive
                   /\ tableWidth' = ReadWidth(rc.master, width)
            /\ exportMenuItems' =
                   initializeExportMenu(mergedConfig', selectedRows)
            /\ customActionButtons' = OrEmpty(mergedConfig'.customActions)
            /\ actionsPanelButtons' =
                   buildActionsPanelButtons(mergedConfig', selectedRows)
            /\ currentFilteredData' = data
            /\ currentExportDefinition' =
                   IF Len(OrEmpty(mergedConfig'.exportDefinitions)) > 0
                   THEN Some(mergedConfig'.exportDefinitions[1][1])
                   ELSE currentExportDefinition
            /\ selectedRows' = syncSelectionFromInput(selection)
            /\ aliased' = syncSharesInputArray(selection)
            /\ thrown' = FALSE
    /\ phase' = "initialized"
    /\ NoEvents
    /\ UNCHANGED << data, columnDefs, config, loading, totalRecords,
                    selection, defaultExportType, toolbarDisabled, host,
                    panel, timers, timerId, menuItemsCache, searchState,
                    cellData >>

\* the values Angular may have assigned to an input before ngOnChanges runs:
\* any bindable value when the input is among the changes, else the old one
NewValues(changes, name, inputs, old) ==
    IF name \in changes THEN inputs ELSE { old }

\* ngOnChanges(changes) after Angular has assigned the inputs their new
\* values
OnChanges(changes, newConfig, newData, newDefs, newLoading, newSelection) ==
       /\ config' = newConfig
       /\ data' = newData
       /\ columnDefs' = newDefs
       /\ loading' = newLoading
       /\ selection' = newSelection
       /\ mergedConfig' = IF "config" \in changes THEN MergeConfig(config')
                          ELSE mergedConfig
       /\ IF "data" \in changes \/ "columnDefs" \in changes
          THEN IF Len(columnDefs') = 0 /\ deriveColumnsFromDataThrows(data')
               THEN \* the TypeError leaves ngOnChanges at line 431
                    /\ thrown' = TRUE
                    /\ UNCHANGED << derivedColumns, allMasterColumns,
                                    responsiveDisplayColumns, tableWidth,
                                    currentFilteredData, selectedRows,
                                    aliased, dtGlobalFilter >>
               ELSE /\ derivedColumns' =
                           IF Len(columnDefs') = 0
                           THEN deriveColumnsFromData(data', mergedConfig')
                           ELSE derivedColumns
                    /\ \E width \in Widths :
                       \E rc \in { RecomputeColumns(columnDefs',
                                                    derivedColumns',
                                                    responsiveDisplayColumns,
                                                    width) } :
                           /\ allMasterColumns' = rc.master
                           /\ responsiveDisplayColumns' = rc.responsive
                           /\ tableWidth' = ReadWidth(rc.master, width)
                    /\ currentFilteredData' = data'
                    /\ dtGlobalFilter' =
                           IF /\ "data" \in changes
                              /\ phase = "initialized"
                              /\ currentGlobalFilter # ""
                           THEN currentGlobalFilter
                           ELSE dtGlobalFilter
                    /\ selectedRows' =
                           IF "selection" \in changes
                           THEN syncSelectionFromInput(selection')
                           ELSE selectedRows
                    /\ aliased' = IF "selection" \in changes
                             THEN syncSharesInputArray(selection')
                             ELSE aliased
                    /\ thrown' = FALSE
          ELSE /\ thrown' = FALSE
               /\ selectedRows' =
                      IF "selection" \in changes
                      THEN syncSelectionFromInput(selection')
                      ELSE selectedRows
               /\ aliased' = IF "selection" \in changes
                             THEN syncSharesInputArray(selection')
                             ELSE aliased
               /\ UNCHANGED << derivedColumns, allMasterColumns,
                               responsiveDisplayColumns, tableWidth,
                               currentFilteredData, dtGlobalFilter >>
       /\ menuItemsCache' =
              IF "data" \in changes \/ "columnDefs" \in changes
              THEN { } ELSE menuItemsCache
       /\ NoEvents
       /\ UNCHANGED << phase, totalRecords, currentExportDefinition,
                       defaultExportType, customActionButtons,
                       toolbarDisabled, actionsPanelButtons, exportMenuItems,
                       timers, timerId, globalFilterValue,
                       currentGlobalFilter, cellData >>

\* the host page rebinds inputs of a table it uses directly
ngOnChanges ==
    \E changes \in ChangeSets :
    \E newConfig \in NewValues(changes, "config", ConfigInputs, config),
       newData \in NewValues(changes, "data", DataInputs, data),
       newDefs \in NewValues(changes, "columnDefs", ColumnDefsInputs, columnDefs) :
       /\ OnChanges(changes, newConfig, newData, newDefs, loading, selection)
       /\ UNCHANGED << host, panel >>

onResize ==
    /\ phase = "initialized"
    /\ \E width \in Widths :
         /\ responsiveDisplayColumns' =
                updateResponsiveColumns(allMasterColumns, width)
         /\ tableWidth' = ReadWidth(allMasterColumns, width)
    /\ thrown' = FALSE
    /\ NoEvents
    /\ UNCHANGED << data, columnDefs, config, mergedConfig, derivedColumns,
                    allMasterColumns, currentFilteredData, phase, loading,
                    totalRecords, selection, selectedRows,
                    currentExportDefinition, defaultExportType,
                    customActionButtons, toolbarDisabled, host, panel,
                    uiState >>

\* the variables the lifecycle handlers compute and the later handlers read
computed == << mergedConfig, derivedColumns, allMasterColumns,
               responsiveDisplayColumns, tableWidth, phase >>

inputs == << data, columnDefs, config, loading, totalRecords, selection >>

\* onFilter(event)
onFilter ==
    /\ phase = "initialized"
    /\ \E event \in FilterEvents(data) :
         LET filtered == IF event.filteredValue # None
                         THEN event.filteredValue[1] ELSE data
         IN  /\ currentFilteredData' = filtered
             /\ Emit(<< [ output  |-> "filterChanged",
                          payload |->
                              [ filters |-> IF event.filters # None
                                            THEN event.filters[1] ELSE { },
                                globalFilter |-> globalFilterValue ] ],
                        [ output |-> "filteredData", payload |-> filtered ] >>)
    /\ invoked' = << >>
    /\ triggered' = None
    /\ thrown' = FALSE
    /\ UNCHANGED << inputs, computed, selectedRows, currentExportDefinition,
                    defaultExportType, customActionButtons, toolbarDisabled,
                    host, panel, uiState >>

\* texts typed into a search field
SearchTexts == { "", "ann", "bob" }

\* faulty GlobalSearchInput: the text is also kept in globalFilterValue
GlobalSearchInputBothFields(value) ==
    /\ currentGlobalFilter' = value
    /\ globalFilterValue' = value
    /\ dtGlobalFilter' = value
    /\ \E table \in FilterEvents(data) :
         LET filtered == IF table.filteredValue # None
                         THEN table.filteredValue[1] ELSE data
         IN  /\ currentFilteredData' = filtered
             /\ Emit(<< [ output |-> "filteredData", payload |-> filtered ] >>)

\* the body onGlobalSearchInput and onGlobalSearchInputFromPanel share; the
\* p-table exists since the view is initialised
GlobalSearchInput(value) ==
    /\ currentGlobalFilter' = value
    /\ globalFilterValue' = globalFilterValue
    /\ dtGlobalFilter' = value
    /\ \E table \in FilterEvents(data) :
         LET filtered == IF table.filteredValue # None
                         THEN table.filteredValue[1] ELSE data
         IN  /\ currentFilteredData' = filtered
             /\ Emit(<< [ output |-> "filteredData", payload |-> filtered ] >>)

\* applyGlobalFilter(dt, event); dt.filters and dt.filteredValue are those
\* of the p-table after dt.filterGlobal
applyGlobalFilter ==
    /\ phase = "initialized"
    /\ \E value \in SearchTexts, table \in FilterEvents(data) :
         LET filtered == IF table.filteredValue # None
                         THEN table.filteredValue[1] ELSE data
         IN  /\ globalFilterValue' = value
             /\ dtGlobalFilter' = value
             /\ currentFilteredData' = filtered
             /\ Emit(<< [ output  |-> "filterChanged",
                          payload |->
                              [ filters |-> IF table.filters # None
                                            THEN table.filters[1] ELSE { },
                                globalFilter |-> globalFilterValue' ] ],
                        [ output |-> "filteredData", payload |-> filtered ] >>)
    /\ invoked' = << >>
    /\ triggered' = None
    /\ thrown' = FALSE
    /\ UNCHANGED << inputs, computed, selectedRows, currentExportDefinition,
                    defaultExportType, customActionButtons, toolbarDisabled,
                    host, panel, selectionState, menuItemsCache,
                    currentGlobalFilter, cellData >>

\* onGlobalSearchInput(event)
onGlobalSearchInput ==
    /\ phase = "initialized"
    /\ \E value \in SearchTexts : GlobalSearchInput(value)
    /\ invoked' = << >>
    /\ triggered' = None
    /\ thrown' = FALSE
    /\ UNCHANGED << inputs, computed, selectedRows, currentExportDefinition,
                    defaultExportType, customActionButtons, toolbarDisabled,
                    host, panel, selectionState, menuItemsCache, cellData >>

\* onGlobalSearchInputFromPanel(value)
onGlobalSearchInputFromPanel ==
    /\ phase = "initialized"
    /\ \E value \in SearchTexts : GlobalSearchInput(value)
    /\ invoked' = << >>
    /\ triggered' = None
    /\ thrown' = FALSE
    /\ UNCHANGED << inputs, computed, selectedRows, currentExportDefinition,
                    defaultExportType, customActionButtons, toolbarDisabled,
                    host, panel, selectionState, menuItemsCache, cellData >>

\* reset(), called by the parent; dt.clear() removes the table's filters
reset ==
    /\ dtGlobalFilter' = IF phase = "initialized" THEN "" ELSE dtGlobalFilter
    /\ currentGlobalFilter' = ""
    /\ globalFilterValue' = ""
    /\ currentFilteredData' = data
    /\ NoEvents
    /\ thrown' = FALSE
    /\ UNCHANGED << inputs, computed, selectedRows, currentExportDefinition,
                    defaultExportType, customActionButtons, toolbarDisabled,
                    host, panel, selectionState, menuItemsCache, cellData >>

\* selectExportDefinition(definition), as the menu item of a custom
\* definition calls it
selectExportDefinition ==
    /\ phase = "initialized"
    /\ \E i \in 1..Len(OrEmpty(mergedConfig.exportDefinitions)) :
         currentExportDefinition' = Some(mergedConfig.exportDefinitions[1][i])
    /\ NoEvents
    /\ thrown' = FALSE
    /\ UNCHANGED << inputs, computed, currentFilteredData, selectedRows,
                    defaultExportType, customActionButtons, toolbarDisabled,
                    host, panel, uiState >>

\* selectDefaultExport(type), as the items of the default menu call it; the
\* menu has these items when there are no custom definitions
selectDefaultExport ==
    /\ phase = "initialized"
    /\ Len(OrEmpty(mergedConfig.exportDefinitions)) = 0
    /\ \E type \in DefaultExportTypes : defaultExportType' = type
    /\ currentExportDefinition' = None
    /\ NoEvents
    /\ thrown' = FALSE
    /\ UNCHANGED << inputs, computed, currentFilteredData, selectedRows,
                    customActionButtons, toolbarDisabled, host, panel,
                    uiState >>

\* performExport()
performExport ==
    /\ phase = "initialized"
    /\ Emit(ExportEvents(currentExportDefinition, defaultExportType))
    /\ invoked' = << >>
    /\ triggered' = None
    /\ thrown' = FALSE
    /\ UNCHANGED << inputs, computed, currentFilteredData, selectedRows,
                    currentExportDefinition, defaultExportType,
                    customActionButtons, toolbarDisabled, host, panel,
                    uiState >>

\* selections the host binds to a table without data of its own
ToolbarSelectionInputs ==
    { NoSelection, NullSelection, ArraySelection(<< >>), SingleSelection(RowA),
      ArraySelection(<< RowA >>), ArraySelection(<< RowA, RowB >>) }

\* the host page rebinds the selection input of a table it uses directly
ngOnChangesSelection ==
    /\ \E newSelection \in ToolbarSelectionInputs :
          OnChanges({ "selection" }, config, data, columnDefs, loading,
                    newSelection)
    /\ UNCHANGED << host, panel >>

\* the toolbar is rendered: isToolbarActionDisabled(action) is evaluated for
\* every custom action button; selected is selectedRows.length at that time
renderToolbar ==
    /\ phase = "initialized"
    /\ toolbarDisabled' =
          [ i \in 1..Len(customActionButtons) |->
              [ selected |-> Len(selectedRows),
                disabled |-> isToolbarActionDisabled(customActionButtons[i],
                                                     selectedRows) ] ]
    /\ NoEvents
    /\ thrown' = FALSE
    /\ UNCHANGED << inputs, computed, currentFilteredData, selectedRows,
                    currentExportDefinition, defaultExportType,
                    customActionButtons, host, panel, uiState >>

\* the template renders the menu of a row: getRowActionMenuItems(rowData,
\* col) for the row at an index of data
getRowActionMenuItems ==
    /\ phase = "initialized"
    /\ \E i \in 1..Len(data), col \in RowActionColumns :
       \E key \in { CacheKey(data[i], col) } :
          menuItemsCache' = CacheAfter(menuItemsCache, key, data, i, col)
    /\ NoEvents
    /\ thrown' = FALSE
    /\ UNCHANGED << inputs, computed, currentFilteredData, selectedRows,
                    currentExportDefinition, defaultExportType,
                    customActionButtons, toolbarDisabled, host, panel,
                    selectionState, searchState, cellData >>

\* the user opens the menu of a row and clicks an item: the command of an
\* item that getRowActionMenuItems(rowData, col) returned runs
menuItemCommand ==
    /\ phase = "initialized"
    /\ \E i \in 1..Len(data), col \in RowActionColumns :
       \E key \in { CacheKey(data[i], col) } :
       \E items \in { MenuItems(menuItemsCache, key, data, i, col) } :
       \E k \in 1..Len(items) :
         LET item == items[k]
             handler == resolveActionHandler(item.action, mergedConfig)
         IN  /\ menuItemsCache' = CacheAfter(menuItemsCache, key, data, i, col)
             /\ triggered' = Some([ action |-> item.action, row |-> data[i],
                                    index |-> i, bound |-> item.index ])
             /\ invoked' = IF handler # None
                           THEN << [ handler |-> handler[1],
                                     row |-> item.rowData ] >>
                           ELSE << >>
    /\ emitted' = << >>
    /\ panelEmitted' = << >>
    /\ thrown' = FALSE
    /\ UNCHANGED << inputs, computed, currentFilteredData, selectedRows,
                    currentExportDefinition, defaultExportType,
                    customActionButtons, toolbarDisabled, host, panel,
                    selectionState, searchState, cellData >>

\* the host page rebinds data or columnDefs of a table with row menus
ngOnChangesRows ==
    /\ \E changes \in { { "data" }, { "columnDefs" } } :
       \E newData \in NewValues(changes, "data", RowMenuData, data),
          newDefs \in NewValues(changes, "columnDefs",
                                { << >>, << ColId >> }, columnDefs) :
          OnChanges(changes, config, newData, newDefs, loading, selection)
    /\ UNCHANGED << host, panel >>

\* onPageChange(event)
onPageChange ==
    /\ phase = "initialized"
    /\ \E event \in PageEvents :
          Emit(<< [ output |-> "pageChanged", payload |-> event ] >>)
    /\ invoked' = << >>
    /\ triggered' = None
    /\ thrown' = FALSE
    /\ UNCHANGED << inputs, computed, currentFilteredData, selectedRows,
                    currentExportDefinition, defaultExportType,
                    customActionButtons, toolbarDisabled, host, panel,
                    uiState >>

\* onSort(event)
onSort ==
    /\ phase = "initialized"
    /\ \E event \in SortEvents :
          Emit(<< [ output |-> "sortChanged", payload |-> event ] >>)
    /\ invoked' = << >>
    /\ triggered' = None
    /\ thrown' = FALSE
    /\ UNCHANGED << inputs, computed, currentFilteredData, selectedRows,
                    currentExportDefinition, defaultExportType,
                    customActionButtons, toolbarDisabled, host, panel,
                    uiState >>

\* what a TableRowSelectionEvent of the p-table carries as data: nothing,
\* the row clicked, or an array of rows
RowEvents(rows) ==
    { NoSelection, ArraySelection(rows) }
        \cup { SingleSelection(rows[i]) : i \in 1..Len(rows) }

\* the rows without the given row
Without(rows, row) ==
    LET Other(r) == r # row IN SelectSeq(rows, Other)

\* selectedRows once the p-table, whose selection is bound two-way to it,
\* has handled the click that selects the row: written before or after the
\* handler runs and before its timer fires, as the clicked row alone, as the
\* rows with the clicked one added, or not at all
SelectedAfterSelect(rows, event) ==
    IF event.kind = "single"
    THEN { rows, << event.rows[1] >>,
           Without(rows, event.rows[1]) \o << event.rows[1] >> }
    ELSE { rows }

\* the same for the click that unselects the row
SelectedAfterUnselect(rows, event) ==
    IF event.kind = "single"
    THEN { rows, Without(rows, event.rows[1]) }
    ELSE { rows }

\* faulty SetTimeout: the new timer replaces the pending ones
SetTimeoutDebounced(call) ==
    /\ timerId' = timerId + 1
    /\ timers' = << [ id |-> timerId', call |-> call ] >>

\* setTimeout(callback, 10) as onRowSelect and onRowUnselect call it
SetTimeout(call) ==
    /\ timerId' = timerId + 1
    /\ timers' = Append(timers, [ id |-> timerId', call |-> call ])

\* onRowSelect(event), with the p-table's write to selectedRows
onRowSelect ==
    /\ phase = "initialized"
    /\ timerId < MaxCalls
    /\ \E event \in RowEvents(data) :
         /\ selectedRows' \in SelectedAfterSelect(selectedRows, event)
         /\ Emit(IF event.kind = "single"
                 THEN << [ output  |-> "rowSelected",
                           payload |-> event.rows[1] ] >>
                 ELSE << >>)
    /\ SetTimeout("onRowSelect")
    /\ aliased' = (selectedRows' = selectedRows /\ aliased)
    /\ invoked' = << >>
    /\ triggered' = None
    /\ thrown' = FALSE
    /\ UNCHANGED << inputs, computed, currentFilteredData,
                    currentExportDefinition, defaultExportType,
                    customActionButtons, toolbarDisabled, host, panel,
                    actionsPanelButtons, exportMenuItems, menuItemsCache,
                    searchState, cellData >>

\* onRowUnselect(event), with the p-table's write to selectedRows
onRowUnselect ==
    /\ phase = "initialized"
    /\ timerId < MaxCalls
    /\ \E event \in RowEvents(data) :
         /\ selectedRows' \in SelectedAfterUnselect(selectedRows, event)
         /\ Emit(IF event.kind = "single"
                 THEN << [ output  |-> "rowUnselected",
                           payload |-> event.rows[1] ] >>
                 ELSE << >>)
    /\ SetTimeout("onRowUnselect")
    /\ aliased' = (selectedRows' = selectedRows /\ aliased)
    /\ invoked' = << >>
    /\ triggered' = None
    /\ thrown' = FALSE
    /\ UNCHANGED << inputs, computed, currentFilteredData,
                    currentExportDefinition, defaultExportType,
                    customActionButtons, toolbarDisabled, host, panel,
                    actionsPanelButtons, exportMenuItems, menuItemsCache,
                    searchState, cellData >>

\* the callback onRowSelect / onRowUnselect passed to setTimeout; timers of
\* equal delay fire in the order they were set
selectionTimer ==
    /\ timers # << >>
    /\ timers' = Tail(timers)
    /\ Emit(<< [ output  |-> "selectionChange",
                 payload |-> emitSelectionChange(mergedConfig,
                                                 selectedRows) ] >>)
    /\ exportMenuItems' = initializeExportMenu(mergedConfig, selectedRows)
    /\ actionsPanelButtons' =
           buildActionsPanelButtons(mergedConfig, selectedRows)
    /\ invoked' = << >>
    /\ triggered' = None
    /\ thrown' = FALSE
    /\ UNCHANGED << inputs, computed, currentFilteredData, selectedRows,
                    currentExportDefinition, defaultExportType,
                    customActionButtons, toolbarDisabled, host, panel,
                    timerId, aliased, menuItemsCache, searchState, cellData >>

\* the template renders the cell: getCellData(rowData, col)
renderCell ==
    /\ phase = "initialized"
    /\ cellData # None
    /\ cellData[1].result = None
    /\ cellData' =
          Some([ cellData[1] EXCEPT !.result =
                   Some(getCellData(mergedConfig, cellData[1].rowData,
                                    cellData[1].col, cellData[1].parsable)) ])
    /\ NoEvents
    /\ thrown' = FALSE
    /\ UNCHANGED << inputs, computed, currentFilteredData, selectedRows,
                    currentExportDefinition, defaultExportType,
                    customActionButtons, toolbarDisabled, host, panel,
                    selectionState, menuItemsCache, searchState >>

\* a change detection pass of the page that hosts the panel: the page binds
\* the panel's inputs, the panel template binds them to the table, and the
\* table's ngOnChanges runs with the inputs that changed (all that are bound,
\* the first time)
panelDetectChanges ==
    /\ panel # None
    /\ \E page \in HostInputs :
         /\ host' = Some(page)
         /\ panel' = Some(PanelInputsOf(page))
         /\ LET changes == IF host = None THEN PanelInputNames
                           ELSE { n \in PanelInputNames :
                                    panel'[1][n] # panel[1][n] }
            IN  IF changes # { }
                THEN OnChanges(changes, ConfigOrEmpty(panel'[1].config),
                               panel'[1].data, OrEmpty(panel'[1].columnDefs),
                               panel'[1].loading, panel'[1].selection)
                ELSE /\ NoEvents
                     /\ UNCHANGED << inputs, computed, currentFilteredData,
                                     selectedRows, currentExportDefinition,
                                     defaultExportType, customActionButtons,
                                     toolbarDisabled, thrown, uiState >>

-----------------------------------------------------------------------------
(* Specifications *)

\* the component as constructed: every field at its declared default
ConstructedTable ==
    /\ mergedConfig = defaultConfig
    /\ derivedColumns = << >>
    /\ allMasterColumns = << >>
    /\ responsiveDisplayColumns = << >>
    /\ currentFilteredData = << >>
    /\ tableWidth = 0
    /\ phase = "constructed"
    /\ thrown = FALSE
    /\ selectedRows = << >>
    /\ currentExportDefinition = None
    /\ defaultExportType = "all"
    /\ customActionButtons = << >>
    /\ toolbarDisabled = << >>
    /\ emitted = << >>
    /\ invoked = << >>
    /\ triggered = None
    /\ actionsPanelButtons = << >>
    /\ exportMenuItems = << >>
    /\ timers = << >>
    /\ timerId = 0
    /\ aliased = FALSE
    /\ menuItemsCache = { }
    /\ globalFilterValue = ""
    /\ currentGlobalFilter = ""
    /\ dtGlobalFilter = ""

\* no cell is being rendered
Constructed == ConstructedTable /\ cellData = None

\* the table is used directly by the host page, which binds neither loading
\* nor totalRecords nor selection
Standalone ==
    /\ loading = FALSE
    /\ totalRecords = 0
    /\ selection = NoSelection
    /\ host = None
    /\ panel = None
    /\ panelEmitted = << >>

Init ==
    /\ data = << >>
    /\ columnDefs = << >>
    /\ config = EmptyConfig
    /\ Constructed
    /\ Standalone

Next == ngOnInit \/ ngOnChanges \/ onResize

Spec == Init /\ [][Next]_vars

\* the responsive selection as a function of (columnDefs, width): the host
\* assigns columnDefs before the first lifecycle hook and then only resizes
InitResponsive ==
    /\ data = << >>
    /\ columnDefs \in ColumnDefLists
    /\ config = EmptyConfig
    /\ Constructed
    /\ Standalone

NextResponsive == ngOnInit \/ onResize

SpecResponsive == InitResponsive /\ [][NextResponsive]_vars

\* column inference as a function of data[0]: the host binds data and no
\* columnDefs before the first lifecycle hook and then only resizes
InitInference ==
    /\ data \in InferenceData
    /\ columnDefs = << >>
    /\ config \in ConfigInputs
    /\ Constructed
    /\ Standalone

NextInference == ngOnInit \/ onResize

SpecInference == InitInference /\ [][NextInference]_vars

\* the export: the host binds data, a selection and a configuration with or
\* without custom export definitions; the user filters, chooses what to
\* export and exports
InitExport ==
    /\ data \in ExportDataInputs
    /\ columnDefs = << >>
    /\ config \in ExportConfigInputs
    /\ selection \in ExportSelectionInputs(data)
    /\ loading = FALSE
    /\ totalRecords = 0
    /\ host = None
    /\ panel = None
    /\ panelEmitted = << >>
    /\ Constructed

NextExport ==
    \/ ngOnInit
    \/ onFilter
    \/ selectExportDefinition
    \/ selectDefaultExport
    \/ performExport

SpecExport == InitExport /\ [][NextExport]_vars

\* the toolbar: the host binds a configuration with custom actions and a
\* selection, and rebinds the selection
InitToolbar ==
    /\ data = << >>
    /\ columnDefs = << >>
    /\ config \in ToolbarConfigInputs
    /\ selection \in ToolbarSelectionInputs
    /\ loading = FALSE
    /\ totalRecords = 0
    /\ host = None
    /\ panel = None
    /\ panelEmitted = << >>
    /\ Constructed

NextToolbar == ngOnInit \/ ngOnChangesSelection \/ renderToolbar

SpecToolbar == InitToolbar /\ [][NextToolbar]_vars

\* row actions: the host binds data and a configuration with or without
\* action handlers; the user triggers row-action menu items
InitRowActions ==
    /\ data = << RowA, RowB >>
    /\ columnDefs = << >>
    /\ config \in RowActionConfigInputs
    /\ Constructed
    /\ Standalone

NextRowActions == ngOnInit \/ menuItemCommand

SpecRowActions == InitRowActions /\ [][NextRowActions]_vars

\* the row menus: the host binds and rebinds data and columnDefs; the
\* template renders row menus and the user clicks their items
InitRowMenus ==
    /\ data \in RowMenuData
    /\ columnDefs = << >>
    /\ config = [ EmptyConfig EXCEPT
                    !.actionHandlers = Some([ k \in { "edit" } |-> "onEdit" ]) ]
    /\ Constructed
    /\ Standalone

NextRowMenus ==
    \/ ngOnInit
    \/ ngOnChangesRows
    \/ getRowActionMenuItems
    \/ menuItemCommand

SpecRowMenus == InitRowMenus /\ [][NextRowMenus]_vars

\* the global search: the host binds two rows; the user types into the
\* search fields and filters columns, and the parent resets the table
InitSearch ==
    /\ data = << RowA, RowB >>
    /\ columnDefs = << >>
    /\ config = EmptyConfig
    /\ Constructed
    /\ Standalone

NextSearch ==
    \/ ngOnInit
    \/ applyGlobalFilter
    \/ onGlobalSearchInput
    \/ onGlobalSearchInputFromPanel
    \/ reset
    \/ onFilter

SpecSearch == InitSearch /\ [][NextSearch]_vars

\* the cells: the host binds a configuration with or without transformers
\* and the template renders cells
InitCells ==
    /\ data = << >>
    /\ columnDefs = << >>
    /\ config \in CellConfigInputs
    /\ cellData \in CellsToRender
    /\ ConstructedTable
    /\ Standalone

NextCells == ngOnInit \/ renderCell

SpecCells == InitCells /\ [][NextCells]_vars

\* the selection: the host binds two rows, a selection and a configuration
\* with or without action buttons, and rebinds the selection; the user
\* clicks rows, and the timers of the clicks fire
InitSelection ==
    /\ data = << RowA, RowB >>
    /\ columnDefs = << >>
    /\ config \in SelectionConfigInputs
    /\ selection \in ToolbarSelectionInputs
    /\ loading = FALSE
    /\ totalRecords = 0
    /\ host = None
    /\ panel = None
    /\ panelEmitted = << >>
    /\ Constructed

NextSelection ==
    \/ ngOnInit
    \/ ngOnChangesSelection
    \/ onRowSelect
    \/ onRowUnselect
    \/ selectionTimer

SpecSelection == InitSelection /\ [][NextSelection]_vars

\* the timers of the selection: the host binds two rows and a configuration,
\* the user clicks rows, and every timer that is due fires
InitTimers ==
    /\ data = << RowA, RowB >>
    /\ columnDefs = << >>
    /\ config \in SelectionConfigInputs
    /\ Constructed
    /\ Standalone

NextTimers == ngOnInit \/ onRowSelect \/ onRowUnselect \/ selectionTimer

SpecTimers ==
    InitTimers /\ [][NextTimers]_vars /\ WF_vars(selectionTimer)

\* the table inside the panel: panel and table as constructed, the page not
\* yet rendered
InitPanel ==
    /\ data = << >>
    /\ columnDefs = << >>
    /\ config = EmptyConfig
    /\ loading = FALSE
    /\ totalRecords = 0
    /\ selection = NoSelection
    /\ host = None
    /\ panel = Some(PanelDefaults)
    /\ panelEmitted = << >>
    /\ Constructed

NextPanel ==
    \/ panelDetectChanges
    \/ ngOnInit
    \/ onFilter
    \/ onPageChange
    \/ onSort
    \/ performExport

SpecPanel == InitPanel /\ [][NextPanel]_vars

-----------------------------------------------------------------------------
(* Properties of the responsive selection (SpecResponsive) *)

\* ngOnInit ran, so updateResponsiveColumns has run on the master list
Ran == phase = "initialized"

MasterIdx == 1..Len(allMasterColumns)

Selected(col) == col \in SeqToSet(responsiveDisplayColumns)

IsMustShow(i) == Truthy(allMasterColumns[i].mustShow)

UniqueFields(cols) ==
    \A i, j \in 1..Len(cols) : cols[i].field = cols[j].field => i = j

\* the optional column i was selected and so was every optional column
\* before it: it belongs to the leading run of the selection
InLeadingRun(i) ==
    /\ ~IsMustShow(i)
    /\ \A j \in 1..i : ~IsMustShow(j) => Selected(allMasterColumns[j])

\* a resize that reads a larger width than the one read before
WiderResize ==
    /\ Ran
    /\ allMasterColumns' = allMasterColumns
    /\ tableWidth' > tableWidth

\* C1 as claimed: for a fixed master list and widths w1 < w2, every column
\* selected at w1 is also selected at w2.
C1_GreedyMonotone ==
    [][ WiderResize =>
          SeqToSet(responsiveDisplayColumns)
              \subseteq SeqToSet(responsiveDisplayColumns') ]_vars

\* C1 amended: for a fixed master list and widths w1 < w2, every mustShow
\* column and every optional column of the leading run at w1 (selected, with
\* every optional column before it selected too) is also selected at w2; an
\* optional column behind a skipped one may be dropped at w2.
C1_LeadingRunMonotone ==
    [][ WiderResize =>
          \A i \in MasterIdx :
              (IsMustShow(i) \/ InLeadingRun(i))
                  => allMasterColumns[i] \in SeqToSet(responsiveDisplayColumns') ]_vars

\* C1 witness: a selection reached by widening from a narrower width w1 at
\* which another column was shown; the leading run of w1 is kept, a column
\* behind a skipped one is gone.
C1_Witness ==
    /\ Ran
    /\ \E i \in MasterIdx : InLeadingRun(i)
    /\ \E w1 \in Widths :
          /\ w1 < tableWidth
          /\ \E col \in SeqToSet(updateResponsiveColumns(allMasterColumns, w1)) :
                ~Selected(col)

\* C2: after updateResponsiveColumns ran on a non-empty master list, every
\* mustShow column is in responsiveDisplayColumns, whatever the width.
C2_MustShowAlwaysShown ==
    (Ran /\ Len(allMasterColumns) > 0) =>
        \A i \in MasterIdx : IsMustShow(i) => Selected(allMasterColumns[i])

\* C2 witness: a width of 0 or less, smaller than what the mustShow columns
\* need, and a mustShow column on display.
C2_Witness ==
    /\ Ran
    /\ tableWidth <= 0
    /\ \E i \in MasterIdx :
          /\ IsMustShow(i)
          /\ ColMinWidth(allMasterColumns[i]) > tableWidth
          /\ Selected(allMasterColumns[i])

\* sub holds only elements of seq, each once, in the order they have in seq
\* (seq without repeated elements)
IsSubsequence(sub, seq) ==
    /\ \A k \in 1..Len(sub) : \E i \in 1..Len(seq) : seq[i] = sub[k]
    /\ \A k, l \in 1..Len(sub) :
          k < l => \E i, j \in 1..Len(seq) :
                      i < j /\ seq[i] = sub[k] /\ seq[j] = sub[l]

\* C3: with unique field values, responsiveDisplayColumns is a subsequence
\* of allMasterColumns: master columns only, each at most once, in master
\* order, although mustShow columns are collected first.
C3_SubsequenceOfMaster ==
    (Ran /\ UniqueFields(allMasterColumns)) =>
        IsSubsequence(responsiveDisplayColumns, allMasterColumns)

\* C3 witness: an optional column ahead of a mustShow column in the master
\* list, both selected: they were collected in the opposite order.
C3_Witness ==
    /\ Ran
    /\ UniqueFields(allMasterColumns)
    /\ \E i, j \in MasterIdx :
          /\ i < j
          /\ ~IsMustShow(i) /\ IsMustShow(j)
          /\ Selected(allMasterColumns[i]) /\ Selected(allMasterColumns[j])

\* the minWidths of all mustShow columns plus those of the optional columns
\* selected before column i in master order
UsedBefore(i) ==
    SumSeq([ j \in MasterIdx |->
               IF IsMustShow(j) \/ (j < i /\ Selected(allMasterColumns[j]))
               THEN ColMinWidth(allMasterColumns[j]) ELSE 0 ])

FitsAt(i) == tableWidth > UsedBefore(i) + ColMinWidth(allMasterColumns[i])

\* the field of column i is already that of a collected column: a mustShow
\* column, or an optional column selected earlier
FieldTaken(i) ==
    \E j \in MasterIdx :
        /\ allMasterColumns[j].field = allMasterColumns[i].field
        /\ IsMustShow(j) \/ (j < i /\ Selected(allMasterColumns[j]))

\* C4 as claimed: in pass 2 a non-mustShow column is selected if and only if
\* availableWidth > usedWidth + its minWidth, usedWidth being the minWidths
\* of all mustShow columns plus those of the optional columns selected
\* earlier; equality excludes the column.
C4_SelectedIffFits ==
    Ran => \A i \in MasterIdx :
              ~IsMustShow(i) => (Selected(allMasterColumns[i]) <=> FitsAt(i))

\* C4 amended: the same for every non-mustShow column whose field is not the
\* field of an already collected column (a mustShow column or an optional
\* column selected earlier); a column whose field is taken is never selected.
C4_SelectedIffFitsAndNew ==
    Ran => \A i \in MasterIdx :
              ~IsMustShow(i) =>
                  (Selected(allMasterColumns[i]) <=> (~FieldTaken(i) /\ FitsAt(i)))

\* C4 witness: an optional column that would exactly fill the width is left
\* out, after an earlier optional column was taken.
C4_Witness ==
    /\ Ran
    /\ \E i, j \in MasterIdx :
          /\ j < i
          /\ ~IsMustShow(j) /\ Selected(allMasterColumns[j])
          /\ ~IsMustShow(i) /\ ~FieldTaken(i)
          /\ tableWidth = UsedBefore(i) + ColMinWidth(allMasterColumns[i])
          /\ ~Selected(allMasterColumns[i])

AllMustShow == \A i \in MasterIdx : IsMustShow(i)

\* C5 as claimed: when every master column has mustShow = true the selection
\* is the master list in its original order, for every width.
C5_AllMustShowIdentity ==
    (Ran /\ AllMustShow) => responsiveDisplayColumns = allMasterColumns

\* C5 amended: when every master column has mustShow = true and the field
\* values are unique, the selection is the master list in its original
\* order, for every width.
C5_AllMustShowUniqueIdentity ==
    (Ran /\ AllMustShow /\ UniqueFields(allMasterColumns))
        => responsiveDisplayColumns = allMasterColumns

\* C5 witness: two or more mustShow columns, nothing else, at a width of 0
\* or less.
C5_Witness ==
    /\ Ran
    /\ AllMustShow /\ UniqueFields(allMasterColumns)
    /\ Len(allMasterColumns) >= 2
    /\ tableWidth <= 0
    /\ responsiveDisplayColumns = allMasterColumns

\* C6 as claimed: with a width of 0 or less and no mustShow column the
\* selection is empty, whatever minWidth the columns declare.
C6_EmptyAtNoWidth ==
    (Ran /\ tableWidth <= 0 /\ \A i \in MasterIdx : ~IsMustShow(i))
        => responsiveDisplayColumns = << >>

\* the minWidth property has no leading integer: missing, empty, or
\* starting (after an optional sign) with something else than a digit
NoLeadingInteger(col) ==
    \/ col.minWidth = None
    \/ LET s == col.minWidth[1]
       IN  \/ s = << >>
           \/ ~ ( \/ IsDigit(s[1])
                  \/ s[1] \in { "+", "-" } /\ Len(s) >= 2 /\ IsDigit(s[2]) )

\* the column with minWidth: "100px" written out where it has no integer
WithDefaultWritten(col) ==
    IF NoLeadingInteger(col) THEN [ col EXCEPT !.minWidth = Some(Px100) ]
    ELSE col

\* positions of the master list that updateResponsiveColumns selects
SelectedPositions(master, width) ==
    { i \in 1..Len(master) :
        master[i] \in SeqToSet(updateResponsiveColumns(master, width)) }

\* C7: a column whose minWidth is missing, empty or without leading integer
\* counts as 100 in both passes (the selection is the one of the same list
\* with "100px" written out), and a leading integer counts as that integer.
C7_MinWidthDefault ==
    Ran =>
        /\ \A i \in MasterIdx :
              LET col == allMasterColumns[i]
              IN  /\ NoLeadingInteger(col) => ColMinWidth(col) = 100
                  /\ col.minWidth = Some(Px150) => ColMinWidth(col) = 150
                  /\ col.minWidth = Some(Px50) => ColMinWidth(col) = 50
        /\ { i \in MasterIdx : Selected(allMasterColumns[i]) }
              = SelectedPositions(
                    [ i \in MasterIdx |-> WithDefaultWritten(allMasterColumns[i]) ],
                    tableWidth)

\* C7 witness: a mustShow column with an unparsable minWidth uses up 100, and
\* an optional column without minWidth is left out because it needs 100.
C7_Witness ==
    /\ Ran
    /\ \E i, j \in MasterIdx :
          /\ IsMustShow(i) /\ allMasterColumns[i].minWidth = Some(Auto)
          /\ ~IsMustShow(j) /\ allMasterColumns[j].minWidth = None
          /\ ~FieldTaken(j)
          /\ tableWidth = 200
          /\ UsedBefore(j) = 100
          /\ ~Selected(allMasterColumns[j])

Max(a, b) == IF a >= b THEN a ELSE b

\* C8 as claimed: after pass 1 usedWidth is the sum over the mustShow columns
\* of max(minWidth, 0); a negative minWidth contributes 0.
C8_Pass1Clamped ==
    Ran => MustShowPass(allMasterColumns, tableWidth).width
              = SumSeq([ i \in MasterIdx |->
                           IF IsMustShow(i)
                           THEN Max(ColMinWidth(allMasterColumns[i]), 0)
                           ELSE 0 ])

\* C9 as claimed, for master lists with unique field values: of two
\* non-mustShow columns with identical minWidth, the later one is selected
\* only if the earlier one is.
C9_EarlierFirst ==
    (Ran /\ UniqueFields(allMasterColumns)) =>
        \A a, b \in MasterIdx :
            ( /\ a < b
              /\ ~IsMustShow(a) /\ ~IsMustShow(b)
              /\ allMasterColumns[a].minWidth = allMasterColumns[b].minWidth
              /\ Selected(allMasterColumns[b]) )
                => Selected(allMasterColumns[a])

-----------------------------------------------------------------------------
(* Properties of the lifecycle (Spec) *)

\* the columns inferred from the current data[0], whatever the filterable
\* flag they were inferred with
InferredFromCurrentData(cols) ==
    \E flag \in BOOLEAN :
        cols = deriveColumnsFromData(
                   data, [ defaultConfig EXCEPT !.enableColumnFiltering = flag ])

-----------------------------------------------------------------------------
(* Properties of column inference (SpecInference) *)

\* data[0] is an object
FirstIsObject == Len(data) > 0 /\ ~ObjectKeysThrows(data[1])

\* there is nothing to infer columns from: no data, no first record, or a
\* first record without fields
NothingToInfer ==
    \/ Len(data) = 0
    \/ ObjectKeysThrows(data[1])
    \/ ObjectKeys(data[1]) = << >>

\* C11: column inference never fails: no handler ends by raising an error,
\* and once ngOnInit has run on a data list that is empty, or whose first
\* record is null / undefined or has no fields, derivedColumns is empty.
C11_InferenceNeverFails ==
    /\ ~thrown
    /\ (Ran /\ NothingToInfer) => derivedColumns = << >>

\* the header the key is said to get: a space before every uppercase letter
\* but the first character, then the first character in upper case
SpacedInside(key) ==
    Flatten([ i \in 1..Len(key) |->
                IF i > 1 /\ IsUpperAZ(key[i]) THEN << " ", key[i] >>
                ELSE << key[i] >> ])

HeaderOfKey(key) ==
    IF key = << >> THEN << >>
    ELSE << toUpperCase(key[1]) >> \o Tail(SpacedInside(key))

\* C12: the header of every inferred column is its key with one space put
\* before every uppercase letter other than the first character and with the
\* first character in upper case; it never starts with a space, and it is
\* empty for the empty key.
C12_HeaderFromKey ==
    \A i \in 1..Len(derivedColumns) :
        LET col == derivedColumns[i]
        IN  /\ col.header = HeaderOfKey(col.field)
            /\ col.header = << >> \/ col.header[1] # " "
            /\ col.field = << >> => col.header = << >>

\* the properties of data[0] the columns were inferred from
FirstEntries == ObjectKeys(data[1])

\* ngOnInit has inferred the columns from an object
Inferred == Ran /\ FirstIsObject

\* YYYY-MM-DDTHH:MM:SS at the start of the string
StartsWithIsoDateTime(s) ==
    /\ Len(s) >= 19
    /\ \A i \in { 1, 2, 3, 4, 6, 7, 9, 10, 12, 13, 15, 16, 18, 19 } :
           IsDigit(s[i])
    /\ s[5] = "-" /\ s[8] = "-" /\ s[11] = "T"
    /\ s[14] = ":" /\ s[17] = ":"

\* the decision table for the type of a value
TypeOfValue(v) ==
    CASE v.t = "boolean" -> "boolean"
      [] v.t = "Date" -> "date"
      [] v.t = "string" /\ StartsWithIsoDateTime(v.s) -> "date"
      [] v.t = "number" -> "number"
      [] OTHER -> "string"

\* the filter kind that belongs to a type
FilterOfType == [ date |-> "date", number |-> "numeric",
                  boolean |-> "boolean", string |-> "text" ]

\* C13: every inferred column has the type the decision table gives for the
\* value of its key in data[0] (boolean; date for a Date or a string that
\* starts with an ISO date-time; number; string for everything else) and
\* the filter kind that belongs to that type.
C13_TypeDecisionTable ==
    Inferred =>
        /\ Len(derivedColumns) = Len(FirstEntries)
        /\ \A i \in 1..Len(derivedColumns) :
              LET col == derivedColumns[i]
              IN  /\ col.type = Some(TypeOfValue(FirstEntries[i].value))
                  /\ col.type[1] \in DOMAIN FilterOfType
                  /\ col.filterType = Some(FilterOfType[col.type[1]])

\* an ISO date-time string and a date-only string were typed side by side
C13_Witness ==
    /\ Inferred
    /\ \E i, j \in 1..Len(derivedColumns) :
          /\ FirstEntries[i].value = StringValue(IsoString)
          /\ derivedColumns[i].filterType = Some("date")
          /\ FirstEntries[j].value = StringValue(DateOnlyString)
          /\ derivedColumns[j].filterType = Some("text")

\* C14: for a first record with at least one key, inference gives exactly
\* one column per key, in key order, with field = the key, minWidth 100 and
\* mustShow not set; these columns are the master list, and the columns
\* displayed are always a prefix of it.
C14_OneColumnPerKey ==
    (Inferred /\ FirstEntries # << >>) =>
        /\ Len(derivedColumns) = Len(FirstEntries)
        /\ \A i \in 1..Len(derivedColumns) :
              LET col == derivedColumns[i]
              IN  /\ col.field = FirstEntries[i].key
                  /\ ColMinWidth(col) = 100
                  /\ ~Truthy(col.mustShow)
        /\ allMasterColumns = derivedColumns
        /\ Len(responsiveDisplayColumns) <= Len(allMasterColumns)
        /\ responsiveDisplayColumns =
               SubSeq(allMasterColumns, 1, Len(responsiveDisplayColumns))

\* two columns were inferred and the width leaves room for the first only
C14_Witness ==
    /\ Inferred
    /\ Len(FirstEntries) = 2
    /\ Len(allMasterColumns) = 2
    /\ responsiveDisplayColumns = << allMasterColumns[1] >>
    /\ tableWidth = 150

-----------------------------------------------------------------------------
(* Properties of the export (SpecExport) *)

\* performExport() has just run; Exported is what it emitted
JustExported == Len(emitted) = 1 /\ emitted[1].output = "exportData"

Exported == emitted[1].payload

\* the row carries an error message: an errorMessage that is a non-empty
\* string
HasMessage(row) ==
    \E i \in 1..Len(ObjectKeys(row)) :
        LET entry == ObjectKeys(row)[i]
        IN  /\ entry.key = ErrorMessageKey
            /\ entry.value.t = "string"
            /\ Len(entry.value.s) > 0

HasNoMessage(row) == ~HasMessage(row)

\* C15: with no custom definition chosen, the export of type 'successful'
\* emits the rows of data without an error message and that of type
\* 'failed' the rows with one, both in data order; the two are disjoint and
\* every row of data is in one of them; 'all' emits data and 'selected'
\* emits selectedRows.
C15_DefaultExportPartition ==
    (JustExported /\ currentExportDefinition = None) =>
        LET ok  == DefaultDataToExport("successful")
            bad == DefaultDataToExport("failed")
        IN  /\ defaultExportType = "successful" =>
                   Exported = SelectSeq(data, HasNoMessage)
            /\ defaultExportType = "failed" =>
                   Exported = SelectSeq(data, HasMessage)
            /\ defaultExportType = "all" => Exported = data
            /\ defaultExportType = "selected" => Exported = selectedRows
            /\ SeqToSet(ok) \cap SeqToSet(bad) = { }
            /\ SeqToSet(ok) \cup SeqToSet(bad) = SeqToSet(data)
            /\ Len(ok) + Len(bad) = Len(data)
            /\ IsSubsequence(ok, data)
            /\ IsSubsequence(bad, data)

\* the failed rows of a list of five were exported: two rows, in data order,
\* with rows of every other kind left out
C15_Witness ==
    /\ JustExported
    /\ currentExportDefinition = None
    /\ defaultExportType = "failed"
    /\ Len(data) = 5
    /\ Exported = << RowFailed, RowFailed2 >>

\* a custom definition was chosen when performExport() ran
ExportedCustom == JustExported /\ currentExportDefinition # None

Chosen == currentExportDefinition[1]

\* filterFn(data), or data when the definition has no filterFn
FilterFnOfData(definition) ==
    IF definition.filterFn # None
    THEN ApplyFilterFn(definition.filterFn[1], data)
    ELSE data

ReservedForSelected(definition) ==
    \/ definition.label = "common.actions.exportSelection"
    \/ definition.fileName # None
          /\ Includes(definition.fileName[1], SelectedWord)

ReservedForFiltered(definition) ==
    /\ ~ReservedForSelected(definition)
    /\ \/ definition.label = "common.actions.exportFiltered"
       \/ definition.fileName # None
             /\ Includes(definition.fileName[1], FilteredWord)

C17_ColumnsFnChangesExport ==
    (/\ ExportedCustom
     /\ Chosen.columnsFn # None
     /\ ColumnsToExport(Chosen) # displayColumns)
        => emitted # ExportEvents(Some([ Chosen EXCEPT !.columnsFn = None ]),
                                  defaultExportType)

-----------------------------------------------------------------------------
(* Properties of the toolbar (SpecToolbar) *)

\* C18: whenever isToolbarActionDisabled has been evaluated for a custom
\* action, the result is true if the action requires a selection and no row
\* was selected, and true if it requires a single selection and the number
\* of selected rows was not 1, whatever the action's disabled setting.
C18_RequiresSelectionDisables ==
    \A i \in 1..Len(toolbarDisabled) :
        LET action == customActionButtons[i]
            button == toolbarDisabled[i]
        IN  /\ (Truthy(action.requiresSelection) /\ button.selected = 0)
                   => button.disabled
            /\ (Truthy(action.requiresSingleSelection) /\ button.selected # 1)
                   => button.disabled

-----------------------------------------------------------------------------
(* Properties of the row actions (SpecRowActions) *)

\* the key of the action has a handler in config.actionHandlers
KeyRegistered(action) ==
    /\ action.key # None
    /\ config.actionHandlers # None
    /\ action.key[1] \in DOMAIN config.actionHandlers[1]

\* C19: when the command of a row-action menu item has run, exactly this was
\* called: the action's inline command with the row, if it has one (and not
\* the handler registered under its key); else the handler registered under
\* its key in config.actionHandlers, with the row; else nothing, and no
\* error was raised.
C19_HandlerResolution ==
    triggered # None =>
        LET action == triggered[1].action
            row    == triggered[1].row
        IN  /\ ~thrown
            /\ invoked =
                  IF action.command # None
                  THEN << [ handler |-> action.command[1], row |-> row ] >>
                  ELSE IF KeyRegistered(action)
                  THEN << [ handler |->
                               config.actionHandlers[1][action.key[1]],
                            row |-> row ] >>
                  ELSE << >>

\* an action with an inline command and a registered key was triggered on
\* the second row: the inline command alone was called, with that row
C19_Witness ==
    /\ triggered # None
    /\ triggered[1].action.command # None
    /\ KeyRegistered(triggered[1].action)
    /\ triggered[1].row = RowB
    /\ invoked = << [ handler |-> "editInline", row |-> RowB ] >>

-----------------------------------------------------------------------------
(* Properties of the panel (SpecPanel) *)

\* C20: once the table inside a panel is initialised, each of its inputs
\* data, columnDefs, config, loading, totalRecords and selection has the
\* value the page binds (an undefined columnDefs or config arriving as the
\* empty one), and the panel has emitted exactly the events the table
\* emitted, each once with the same payload.
C20_PanelPassesThrough ==
    (panel # None /\ host # None /\ Ran) =>
        /\ data = host[1].data
        /\ columnDefs = OrEmpty(host[1].columnDefs)
        /\ config = ConfigOrEmpty(host[1].config)
        /\ loading = host[1].loading
        /\ totalRecords = host[1].totalRecords
        /\ selection = host[1].selection
        /\ panelEmitted = emitted

-----------------------------------------------------------------------------
(* Properties of the selection (SpecSelection) *)

\* no deferred callback is pending
TimersRan == timers = << >>

\* the definition's own disabled property, for the rows
OwnDisabled(definition, rows) ==
    /\ definition.disabled # None
    /\ IF definition.disabled[1].kind = "function"
       THEN ApplyDisabledFn(definition.disabled[1].fn, rows)
       ELSE definition.disabled[1].value

\* the rule of the actions panel for one definition and the rows
DisabledByRule(definition, rows) ==
    \/ OwnDisabled(definition, rows)
    \/ definition.requiresSelection = Some(TRUE) /\ Len(rows) = 0
    \/ definition.requiresSingleSelection = Some(TRUE) /\ Len(rows) # 1

\* C21: once the table is initialised and every deferred callback has run,
\* actionsPanelButtons has one entry per action button of the configuration
\* and each entry is disabled exactly when the rule says so for the current
\* selectedRows: the definition's own disabled value, or requiresSelection
\* with no row selected, or requiresSingleSelection with other than one row
\* selected.
C21_PanelButtonsFollowSelection ==
    (Ran /\ ~thrown /\ TimersRan) =>
        LET definitions == OrEmpty(config.actionButtons)
        IN  /\ Len(actionsPanelButtons) = Len(definitions)
            /\ \A i \in 1..Len(definitions) :
                   actionsPanelButtons[i].disabled =
                       DisabledByRule(definitions[i], selectedRows)

-----------------------------------------------------------------------------
(* Properties of the cells (SpecCells) *)

\* getCellData has returned for the cell
Rendered == cellData # None /\ cellData[1].result # None

\* config.transformers has a transformer under the column's transformKey
TransformerRegistered(col) ==
    /\ col.transformKey # None
    /\ config.transformers # None
    /\ col.transformKey[1] \in DOMAIN config.transformers[1]

\* the texts of a boolean column for true and false under each format: the
\* first and the second part of the format, 'Ja' / 'Nein' where the format
\* has no such part
Yes == << "Y", "e", "s" >>
No  == << "N", "o" >>
BooleanTexts(format) ==
    CASE format = None -> << Ja, Nein >>
      [] format = Some(<< >>) -> << Ja, Nein >>
      [] format = Some(Yes) -> << Yes, Nein >>
      [] format = Some(Yes \o << "/" >> \o No) -> << Yes, No >>
      [] format = Some(<< "/" >> \o No) -> << Ja, No >>
      [] format = Some(<< "O", "n", "/", "O", "f", "f", "/", "-" >>) ->
            << << "O", "n" >>, << "O", "f", "f" >> >>

\* the field value counts as true in a boolean column
IsTruthy(value) ==
    /\ value.t \notin { "undefined", "null" }
    /\ value \notin { FalseValue, ZeroValue, StringValue(<< >>) }

\* C22: the value getCellData returns for a cell is, in this order of
\* priority: the result of the transformer registered in config.transformers
\* under the column's transformKey; else the result of the column's own
\* transform; else, for a 'custom' column, the result of customRender; else,
\* for a 'date' column whose field is a non-empty text that parses, a date;
\* else, for a 'boolean' column, the first (true) or second (false) part of
\* the format, 'Ja' / 'Nein' where that part is missing; else the raw field
\* value. A transformKey without a registered transformer changes nothing.
C22_CellDataPriority ==
    Rendered =>
        LET col    == cellData[1].col
            row    == cellData[1].rowData
            value  == Property(row, col.field)
            result == cellData[1].result[1]
        IN  IF TransformerRegistered(col)
            THEN /\ result.kind = "call"
                 /\ result.fn = config.transformers[1][col.transformKey[1]]
                 /\ result.arguments = Some(<< row, col >>)
            ELSE IF col.transform # None
            THEN /\ result.kind = "call"
                 /\ result.fn = col.transform[1]
                 /\ result.arguments = Some(<< row, col >>)
            ELSE IF col.customRender # None /\ col.type = Some("custom")
            THEN /\ result.kind = "call"
                 /\ result.fn = col.customRender[1]
                 /\ result.arguments = Some(<< row, col >>)
            ELSE IF /\ col.type = Some("date")
                    /\ value.t = "string" /\ value.s # << >>
                    /\ cellData[1].parsable
            THEN result.kind = "date" /\ result.value = value
            ELSE IF col.type = Some("boolean")
            THEN /\ result.kind = "text"
                 /\ result.value =
                       StringValue(BooleanTexts(col.format)
                                      [IF IsTruthy(value) THEN 1 ELSE 2])
            ELSE result.kind = "raw" /\ result.value = value

\* a 'custom' column with a registered transformKey, a transform and a
\* customRender was rendered: the registered transformer was called
C22_Witness ==
    /\ Rendered
    /\ TransformerRegistered(cellData[1].col)
    /\ cellData[1].col.transform # None
    /\ cellData[1].col.customRender # None
    /\ cellData[1].col.type = Some("custom")
    /\ cellData[1].result[1].fn = "toUpper"

-----------------------------------------------------------------------------
(* Properties of the selection round trip (SpecSelection) *)

\* the list a selection input stands for
ListOf(sel) ==
    CASE sel.kind \in { "undefined", "null" } -> << >>
      [] sel.kind = "single" -> << sel.rows[1] >>
      [] sel.kind = "array" -> sel.rows

\* the handler that ran last emitted selectionChange
SelectionChangeEmitted ==
    Len(emitted) = 1 /\ emitted[1].output = "selectionChange"

SingleMode == mergedConfig.selectionMode = Some("single")

\* selectedRows is what syncSelectionFromInput made of the selection input
Synced == selectedRows = ListOf(selection)

\* the emission that follows a sync gives the input back
RoundTrip ==
    (SelectionChangeEmitted /\ Synced) =>
        /\ (SingleMode /\ selection.kind = "single") =>
               emitted[1].payload = selection
        /\ (SingleMode /\ selection.kind \in { "undefined", "null" }) =>
               emitted[1].payload = NullSelection
        /\ (~SingleMode /\ selection.kind = "array") =>
               emitted[1].payload = selection

-----------------------------------------------------------------------------
(* Properties of the selection timers (SpecTimers) *)

\* the timer with the handle is pending
Pending(id) == \E i \in 1..Len(timers) : timers[i].id = id

\* the timer with the handle was set and has fired
Fired(id) == id <= timerId /\ ~Pending(id)

\* a row click sets one timer of its own, emits at most rowSelected /
\* rowUnselected, and no selectionChange
ClickSetsOneTimer ==
    (onRowSelect \/ onRowUnselect) =>
        /\ Len(timers') = Len(timers) + 1
        /\ \A i \in 1..Len(timers) : timers'[i] = timers[i]
        /\ ~Pending(timers'[Len(timers')].id)
        /\ ~Fired(timers'[Len(timers')].id)
        /\ \A i \in 1..Len(emitted') :
               emitted'[i].output \in { "rowSelected", "rowUnselected" }

\* a timer that fires emits selectionChange once, with the selection as it
\* is then, and rebuilds the export menu and the actions-panel buttons
TimerEmitsOnce ==
    selectionTimer =>
        /\ \E id \in 1..MaxCalls : Pending(id) /\ Fired(id)'
        /\ Len(timers') = Len(timers) - 1
        /\ Len(emitted') = 1
        /\ emitted'[1].output = "selectionChange"
        /\ emitted'[1].payload =
              IF SingleMode
              THEN IF selectedRows = << >> THEN NullSelection
                   ELSE SingleSelection(selectedRows[1])
              ELSE ArraySelection(selectedRows)
        /\ Len(exportMenuItems') = 4
        /\ exportMenuItems'[2].disabled = Some(selectedRows = << >>)
        /\ Len(actionsPanelButtons') = Len(OrEmpty(config.actionButtons))
        /\ \A i \in 1..Len(actionsPanelButtons') :
               actionsPanelButtons'[i].disabled =
                   DisabledByRule(config.actionButtons[1][i], selectedRows)

\* selectionChange is emitted by timers only
OnlyTimersEmit ==
    SelectionChangeEmitted' => selectionTimer

\* C24: every onRowSelect / onRowUnselect call sets one timer of its own
\* and emits no selectionChange itself; every timer fires eventually; a
\* timer that fires emits selectionChange exactly once, carrying the
\* selection as it is at that moment, and rebuilds the export menu and the
\* actions-panel buttons in the same step; nothing else emits
\* selectionChange. So k calls give exactly k emissions, each after the
\* rowSelected / rowUnselected emission of its call.
C24_OneDeferredEmissionPerCall ==
    /\ [][ClickSetsOneTimer /\ TimerEmitsOnce /\ OnlyTimersEmit]_vars
    /\ \A id \in 1..MaxCalls : Pending(id) ~> Fired(id)

\* two clicks were made and the timer of the first fired while the timer of
\* the second was still pending
C24_Witness ==
    /\ timerId = 2
    /\ Fired(1)
    /\ Pending(2)
    /\ SelectionChangeEmitted

-----------------------------------------------------------------------------
(* Properties of the row menus (SpecRowMenus) *)

\* the command that ran called the handler with the row of the menu, the
\* very object at that index of data
HandlerGetsOwnRow ==
    (triggered # None /\ invoked # << >>) =>
        /\ invoked[1].row = triggered[1].row
        /\ triggered[1].bound = triggered[1].index

\* every cached item is bound to the row at its index of the current data
CacheOfCurrentData ==
    \A entry \in menuItemsCache :
        \A k \in 1..Len(entry.items) :
            /\ entry.items[k].index \in 1..Len(data)
            /\ entry.items[k].rowData = data[entry.items[k].index]

\* C25: the command of a menu item returned by getRowActionMenuItems(r, c)
\* calls the resolved handler with r itself, from the cache or not; the
\* cache holds only items bound to rows of the current data; and every
\* ngOnChanges that changes data or columnDefs empties the cache.
C25_MenuItemsInvokeOwnRow ==
    /\ [](HandlerGetsOwnRow /\ CacheOfCurrentData)
    /\ [][(data' # data \/ columnDefs' # columnDefs) =>
             menuItemsCache' = { }]_vars

\* the cache alone: it holds only items of the current data and is emptied
\* when data or columnDefs change
C25_CacheClearedWithData ==
    /\ []CacheOfCurrentData
    /\ [][(data' # data \/ columnDefs' # columnDefs) =>
             menuItemsCache' = { }]_vars

-----------------------------------------------------------------------------
(* Properties of the global search (SpecSearch) *)

\* C26: the globalFilter of every filterChanged emission is the search text
\* applied last to the p-table (dt.filterGlobal), the empty text after
\* reset or when none was applied, whichever of applyGlobalFilter,
\* onGlobalSearchInput and onGlobalSearchInputFromPanel applied it.
C26_GlobalFilterIsAppliedText ==
    \A i \in 1..Len(emitted) :
        emitted[i].output = "filterChanged" =>
            emitted[i].payload.globalFilter = dtGlobalFilter

-----------------------------------------------------------------------------
(* Properties of the displayed columns (SpecResponsive) *)

\* the field names of a list of columns
FieldsOf(columns) == [ i \in 1..Len(columns) |-> columns[i].field ]

\* the columns performExport() computes for a definition from a list
ExportColumnsFrom(definition, columns) ==
    IF definition.columnsFn # None
    THEN ApplyColumnsFn(definition.columnsFn[1], columns)
    ELSE columns

-----------------------------------------------------------------------------
(* Properties of the inferred columns' filterable flag (Spec) *)

\* the columns are inferred: no columnDefs, and data to infer them from
ColumnsInferred == Ran /\ Len(columnDefs) = 0 /\ Len(data) > 0

\* C28: whenever the columns are inferred, after ngOnInit and any later
\* ngOnChanges of config, data or both, the merged configuration is the
\* defaults overridden by the current config input, and every column of
\* allMasterColumns has its enableColumnFiltering as its filterable flag.
C28_FilterableFollowsConfig ==
    ColumnsInferred =>
        /\ mergedConfig = MergeConfig(config)
        /\ \A i \in 1..Len(allMasterColumns) :
               allMasterColumns[i].filterable =
                   Some(mergedConfig.enableColumnFiltering)

\* the part of C28 about the merged configuration alone
C28_MergedConfigFollowsInput ==
    Ran => mergedConfig = MergeConfig(config)

====
